---- MODULE Spec2Model ----
(***************************************************************************)
(* Metadata manager (MDM), data server (SDS) and client (SDC) of the       *)
(* software-defined block store, as state machines.                        *)
(*                                                                         *)
(* Capacities are integers in units of 1/2560 GB, the largest unit in      *)
(* which both one chunk (4 MB = 1/256 GB = 10 units) and the thin-volume   *)
(* reserve (0.1 GB = 256 units) are whole numbers.  The code computes in   *)
(* floating point; rounding error of the floats is not modelled.           *)
(***************************************************************************)
EXTENDS Integers, Sequences, FiniteSets, TLC

\* ------------------------------------------------------------------------
\* Program constants
\* ------------------------------------------------------------------------
CHUNK_SIZE_MB == 4
CHUNKS_PER_GB == 256
\* One chunk (CHUNK_SIZE_MB / 1024 GB) in capacity units.
ChunkUnits == 10
UnitsPerGB == CHUNKS_PER_GB * ChunkUnits
\* min_reserved = 0.1 GB, the reserve taken by a thin volume.
ThinReserve == UnitsPerGB \div 10
REBUILD_CHUNK_SIZE_MB == 4
STALL_DETECTION_TIMEOUT_SEC == 60
heartbeat_timeout_seconds == 30
\* fault_set_bonus of score_sds, 1000 (GB) in capacity units.
FaultSetBonus == 1000 * UnitsPerGB
\* rebuild_rate_limit_mbps column default.
DEFAULT_REBUILD_RATE == 100

\* ------------------------------------------------------------------------
\* Bounds of the model
\* ------------------------------------------------------------------------
\* Volume names are 1..MaxVolumes (names are unique, so at most that many
\* volumes exist at a time).
MaxVolumes == 2
\* No allocation is attempted that would put more than this many chunk
\* replicas' worth of used capacity on one SDS (used capacity never shrinks).
MaxSdsChunks == 3
\* Rebuild jobs ever created per run.
MaxJobs == 2
\* Operations per run of the failure and rebuild cycle (two rebuilds of a pool,
\* the second for a volume created after the first).
MaxRebuildOps == 8
MaxSdsOps == 7
MaxHealthOps == 2
MaxDataOps == 6
MaxIoOps == 4
\* Pool capacity, in capacity units (a little more than one thin reserve).
PoolTotal == 280
\* A rebuild rate below one chunk per tick, in MB/s.
SlowRate == 2

\* The clock is read at 0, at the stall timeout and one second after it, and
\* never beyond MaxTime.
MaxTime == 61
\* Operations per run.
MaxOps == 5
TimePoints == {STALL_DETECTION_TIMEOUT_SEC, STALL_DETECTION_TIMEOUT_SEC + 1}

\* No volume is extended beyond this many half chunks.
MaxVolHalfChunks == 4
\* IOToken rows issued in a run.
MaxTokens == 2
\* Requests to an SDS data port: the SDSes addressed, the chunk, the offsets
\* and the payloads; a presented token is one the MDM issued, as issued or
\* with its range or its expiry altered.
TokenSds == {1, 3}
RequestChunks == {1}
TokenRanges == {<<0, 2>>, <<1, 1>>}
RequestOffsets == {0, 1}
Payloads == {<<1>>, <<2, 2>>}
Tampers == {"none", "range", "expiry"}
\* Ranges of planning and write requests, in capacity units: within the
\* first chunk, and across the boundary of the first two chunks.
PlanRanges == {<<0, 1>>, <<ChunkUnits - 1, 2>>}

\* Byte values of the payloads written through the MDM.
DataBytes == {1, 2}

HalfChunk == ChunkUnits \div 2
\* Requested sizes and extensions: half a chunk, and a chunk and a half, so
\* that sizes off and (after extension) on a chunk boundary occur.
VolSizes == {HalfChunk, HalfChunk + ChunkUnits}
VolNames == 1..MaxVolumes
Provisionings == {"thin", "thick"}
Policies == {"two_copies", "erasure_coding"}
RebuildRates == {SlowRate, REBUILD_CHUNK_SIZE_MB, DEFAULT_REBUILD_RATE}

\* Topology: one protection domain with one pool and three SDS nodes, two in
\* fault set 1 and one in fault set 2.
PoolIds == {1}
SdsIds == {1, 2, 3}
SdsPd == <<1, 1, 1>>
SdsFaultSet == <<1, 1, 2>>
SdsTotal == <<UnitsPerGB, UnitsPerGB, 2 * UnitsPerGB>>

VARIABLES
    storage_pools,    \* pool id -> StoragePool row
    sds_nodes,        \* sds id -> SDSNode row
    cluster_nodes,    \* sds id -> status of the SDS's ClusterNode
    volumes,          \* Volume rows, in id order
    chunks,           \* Chunk rows, in id order
    replicas,         \* Replica rows, in id order
    rebuild_jobs,     \* RebuildJob rows, in id order
    now,              \* wall clock, seconds
    last,             \* outcome of the last step
    op_count,         \* operations performed so far
    op_limit,         \* operations allowed in this run
    volume_mappings,  \* VolumeMapping rows
    io_plan,          \* the I/O plan returned by the last planning request
    io_result,        \* what the last write reported to its caller
    io_tokens,        \* IOToken rows of the MDM, in id order
    consumed_tokens,  \* sds id -> ConsumedToken rows of that SDS
    local_replicas,   \* sds id -> the SDS's copy of chunk 1: generation, data
    ack_queue,        \* sds id -> the SDS's AckQueue rows: token_id, ack_status, retry_count
    transaction_acks, \* the MDM's IOTransactionAck rows
    io_request,       \* the last request received by an SDS data port
    handlers,         \* request handler -> the volume request it is serving
    component_registry,   \* component id -> ComponentRegistry row: status, last_heartbeat_at
    node_last_heartbeat,  \* sds id -> last_heartbeat of the SDS's ClusterNode
    replica_files,    \* <<sds id, volume id>> -> contents of vol_<id>.img under that SDS's folder
    written,          \* the last write a caller was told succeeded: volume, offset, data
    read_data,        \* the bytes returned by the last read
    rebuild_failed_events   \* number of EventLog rows of type REBUILD_FAILED

mdmVars == <<storage_pools, sds_nodes, cluster_nodes, volumes, chunks,
             replicas, rebuild_jobs, now, last>>

ioVars == <<volume_mappings, io_plan, io_result>>

tokenVars == <<io_tokens, consumed_tokens, local_replicas, ack_queue, io_request,
               transaction_acks>>

healthVars == <<component_registry, node_last_heartbeat>>

fileVars == <<replica_files, written, read_data>>

vars == <<mdmVars, op_count, op_limit, ioVars, tokenVars, handlers, healthVars,
          fileVars, rebuild_failed_events>>

\* ------------------------------------------------------------------------
\* Sequence helpers
\* ------------------------------------------------------------------------
Max(a, b) == IF a >= b THEN a ELSE b

Take(s, n) == IF Len(s) <= n THEN s ELSE SubSeq(s, 1, n)

Range(s) == {s[i] : i \in 1..Len(s)}

\* The function f with every value computed (TLC otherwise recomputes the
\* value of [x \in S |-> e] at each application).
Tabulate(f) == f @@ <<>>

RECURSIVE SetToSeq(_)
\* The ids of a query result, in id order.
SetToSeq(S) ==
    IF S = {} THEN <<>>
    ELSE LET m == CHOOSE x \in S : \A y \in S : x <= y
         IN <<m>> \o SetToSeq(S \ {m})

\* Next rowid of a table whose rows carry an id (SQLite: max(id) + 1).
NextId(rows) == IF Len(rows) = 0 THEN 1 ELSE rows[Len(rows)].id + 1

\* generate_token_id: an id no earlier token has.
NextTokenId(rows) == Len(rows) + 1

\* ------------------------------------------------------------------------
\* StorageEngine: capacity
\* ------------------------------------------------------------------------
Available(pool) == pool.total - (pool.used + pool.reserved)

\* allocate_capacity: [ok, pool, vol_used].
allocate_capacity(pool, size, prov) ==
    IF prov = "thick"
    THEN IF size > Available(pool)
         THEN [ok |-> FALSE, pool |-> pool, vol_used |-> 0]
         ELSE [ok |-> TRUE,
               pool |-> [pool EXCEPT !.reserved = @ + size, !.used = @ + size],
               vol_used |-> size]
    ELSE IF ThinReserve > Available(pool)
         THEN [ok |-> FALSE, pool |-> pool, vol_used |-> 0]
         ELSE [ok |-> TRUE,
               pool |-> [pool EXCEPT !.reserved = @ + ThinReserve],
               vol_used |-> 0]

\* deallocate_capacity.
deallocate_capacity(pool, vol) ==
    IF vol.provisioning = "thick"
    THEN [pool EXCEPT !.used = Max(0, @ - vol.size),
                      !.reserved = Max(0, @ - vol.size)]
    ELSE [pool EXCEPT !.used = Max(0, @ - vol.used),
                      !.reserved = Max(0, @ - ThinReserve)]

\* extend_volume_capacity: [ok, pool, size].
extend_volume_capacity(pool, vol, additional) ==
    IF additional <= 0
    THEN [ok |-> FALSE, pool |-> pool, size |-> vol.size]
    ELSE IF vol.provisioning = "thin"
    THEN [ok |-> TRUE, pool |-> pool, size |-> vol.size]
    ELSE IF additional > Available(pool)
    THEN [ok |-> FALSE, pool |-> pool, size |-> vol.size]
    ELSE [ok |-> TRUE,
          pool |-> [pool EXCEPT !.reserved = @ + additional,
                                !.used = @ + additional],
          size |-> vol.size + additional]

\* ------------------------------------------------------------------------
\* StorageEngine: chunk and replica placement
\* ------------------------------------------------------------------------
\* _get_replica_count
ReplicaCount(policy) ==
    IF policy = "two_copies" THEN 2
    ELSE IF policy = "erasure_coding" THEN 3
    ELSE 2

\* math.ceil(size_gb * CHUNKS_PER_GB)
ChunkCount(size) == (size + ChunkUnits - 1) \div ChunkUnits

\* used / max(total, 1) of a is below that of b (compared cross-multiplied).
LoadLess(sn, a, b) ==
    sn[a].used * Max(sn[b].total, UnitsPerGB) < sn[b].used * Max(sn[a].total, UnitsPerGB)

\* min(nodes, key=load): the first node of least load.
LeastLoaded(sn, nodes) ==
    nodes[CHOOSE i \in 1..Len(nodes) :
            /\ \A j \in 1..Len(nodes) : ~LoadLess(sn, nodes[j], nodes[i])
            /\ \A j \in 1..(i - 1) : LoadLess(sn, nodes[i], nodes[j])]

RECURSIVE SortByLoad(_, _)
\* sorted(nodes, key=load): stable, ascending.
SortByLoad(sn, nodes) ==
    IF Len(nodes) = 0 THEN <<>>
    ELSE LET best == LeastLoaded(sn, nodes)
             rest == SelectSeq(nodes, LAMBDA x : x # best)
         IN <<best>> \o SortByLoad(sn, rest)

RECURSIVE FaultSetKeys(_, _, _)
\* Keys of fault_set_groups in insertion order (0 stands for "no_fault_set").
FaultSetKeys(sn, nodes, seen) ==
    IF Len(nodes) = 0 THEN seen
    ELSE LET fs == sn[Head(nodes)].fault_set
         IN FaultSetKeys(sn, Tail(nodes),
                         IF fs \in Range(seen) THEN seen ELSE Append(seen, fs))

\* _select_replica_targets
select_replica_targets(sn, available_sds, count) ==
    IF Len(available_sds) < count THEN Take(available_sds, count)
    ELSE LET keys == FaultSetKeys(sn, available_sds, <<>>)
             group(k) == SelectSeq(available_sds, LAMBDA x : sn[x].fault_set = k)
         IN IF Len(keys) >= count
            THEN Take(Tabulate([i \in 1..Len(keys) |->
                                   LeastLoaded(sn, group(keys[i]))]), count)
            ELSE Take(SortByLoad(sn, available_sds), count)

\* SDS nodes of the pool's protection domain in state UP, in id order.
AvailableSds(sn, pd) ==
    SetToSeq({s \in SdsIds : sn[s].pd = pd /\ sn[s].state = "UP"})

RECURSIVE PlaceChunks(_, _, _, _, _)
\* The loop of allocate_chunks over chunk_idx: st = [chunks, replicas, sds].
PlaceChunks(st, vol_id, idx, chunk_count, ctx) ==
    IF idx >= chunk_count THEN st
    ELSE LET cid == NextId(st.chunks)
             targets == select_replica_targets(st.sds, ctx.available, ctx.count)
             newReps == Tabulate([i \in 1..Len(targets) |->
                           [chunk_id |-> cid, sds_id |-> targets[i],
                            is_available |-> TRUE, is_current |-> TRUE,
                            is_rebuilding |-> FALSE]])
             newSds == Tabulate([s \in SdsIds |->
                           IF s \in Range(targets)
                           THEN [st.sds[s] EXCEPT !.used = @ + ChunkUnits]
                           ELSE st.sds[s]])
         IN PlaceChunks(
              [chunks |-> Append(st.chunks,
                                 [id |-> cid, volume_id |-> vol_id,
                                  idx |-> idx, is_degraded |-> FALSE,
                                  generation |-> 0]),
               replicas |-> st.replicas \o newReps,
               sds |-> newSds],
              vol_id, idx + 1, chunk_count, ctx)

\* allocate_chunks: [count, chunks, replicas, sds].
allocate_chunks(pool, vol_id, size, cs, rs, sn) ==
    LET replica_count == ReplicaCount(pool.policy)
        available_sds == AvailableSds(sn, pool.pd)
    IN IF Len(available_sds) < replica_count
       THEN [count |-> 0, chunks |-> cs, replicas |-> rs, sds |-> sn]
       ELSE LET st == PlaceChunks([chunks |-> cs, replicas |-> rs, sds |-> sn],
                                  vol_id, 0, ChunkCount(size),
                                  [available |-> available_sds, count |-> replica_count])
            IN [count |-> ChunkCount(size), chunks |-> st.chunks,
                replicas |-> st.replicas, sds |-> st.sds]

\* The allocation stays within the model's cap on SDS used capacity.
WithinSdsCap(sn) == \A s \in SdsIds : sn[s].used <= MaxSdsChunks * ChunkUnits

\* ------------------------------------------------------------------------
\* Initial state: the configured cluster, no volumes, no tokens, no I/O.
\* ------------------------------------------------------------------------
\* Request handlers of the MDM API that may run at the same time (threads of
\* the server's pool, each with a database session of its own).
HandlerIds == {1, 2}
Idle == [pc |-> "idle"]

\* Registered components of the discovery registry.
ComponentIds == {"sds-1", "sdc-1"}

\* Times around the heartbeat timeout of a heartbeat sent at 0 or at 10.
HealthTimePoints == {10, heartbeat_timeout_seconds, heartbeat_timeout_seconds + 1,
                     heartbeat_timeout_seconds + 11}

NoResult == [op |-> "none", status |-> "none", io_path |-> "none",
             io_mode |-> "none", write_policy |-> "none", segments |-> <<>>]

NoWrite == [volume_id |-> 0, offset |-> 0, data |-> <<>>]

NoRead == [volume_id |-> 0, offset |-> 0, length |-> 0, data |-> <<>>]

NoRequest == [sds |-> 0, token |-> <<>>, volume_id |-> 0, chunk_id |-> 0,
              operation |-> "none", offset_bytes |-> 0, length_bytes |-> 0,
              data |-> <<>>]

\* The configured cluster, the SDS nodes in the given fault sets (0: none).
ConfiguredWith(fault_sets) ==
    /\ \E policy \in Policies, rate \in RebuildRates :
         storage_pools = [p \in PoolIds |->
            [pd |-> 1, policy |-> policy, total |-> PoolTotal, used |-> 0,
             reserved |-> 0, health |-> "OK", rebuild_state |-> "idle",
             rebuild_progress |-> 0, rate |-> rate]]
    /\ sds_nodes = [s \in SdsIds |->
            [pd |-> SdsPd[s], fault_set |-> fault_sets[s], total |-> SdsTotal[s],
             used |-> 0, state |-> "UP"]]
    /\ cluster_nodes = [s \in SdsIds |-> "ACTIVE"]
    /\ volumes = <<>>
    /\ chunks = <<>>
    /\ replicas = <<>>
    /\ rebuild_jobs = <<>>
    /\ now = 0
    /\ last = [op |-> "init", ok |-> TRUE, msg |-> "ok"]
    /\ op_count = 0
    /\ volume_mappings = {}
    /\ io_plan = [operation |-> "none", volume_id |-> 0, segments |-> <<>>]
    /\ io_result = NoResult
    /\ io_tokens = <<>>
    /\ consumed_tokens = [s \in SdsIds |-> <<>>]
    /\ local_replicas = [s \in SdsIds |-> [generation |-> 0, data |-> <<>>]]
    /\ ack_queue = [s \in SdsIds |-> <<>>]
    /\ transaction_acks = <<>>
    /\ io_request = NoRequest
    /\ handlers = [h \in HandlerIds |-> Idle]
    /\ component_registry = [c \in ComponentIds |->
            [status |-> "ACTIVE", last_heartbeat_at |-> 0]]
    /\ node_last_heartbeat = [s \in SdsIds |-> 0]
    /\ replica_files = <<>>
    /\ written = NoWrite
    /\ read_data = NoRead
    /\ rebuild_failed_events = 0

Configured == ConfiguredWith(SdsFaultSet)

Init == Configured /\ op_limit = MaxOps

\* ------------------------------------------------------------------------
\* VolumeManager
\* ------------------------------------------------------------------------
Result(op, ok, msg) == [op |-> op, ok |-> ok, msg |-> msg]

\* handle.truncate(target_size): the file is cut, or grows with zero bytes.
\* File sizes and offsets are in capacity units.
truncate(data, target_size) ==
    IF Len(data) >= target_size THEN SubSeq(data, 1, target_size)
    ELSE data \o [k \in 1..(target_size - Len(data)) |-> 0]

\* _get_replica_sds_nodes: the SDS nodes of the replica rows of the volume's
\* chunks.
get_replica_sds_nodes(cs, rs, volume_id) ==
    {rs[r].sds_id : r \in {k \in 1..Len(rs) : \E c \in 1..Len(cs) :
                               cs[c].volume_id = volume_id /\ rs[k].chunk_id = cs[c].id}}

\* RealStorageBackend.resize_volume_replicas, and ensure_volume_replicas of
\* create_volume, which does the same: on each of the nodes the volume's
\* file is created if it is missing (what a file of that path holds is
\* kept) and truncated to the size.
resize_volume_replicas(files, volume_id, size, nodes) ==
    [p \in DOMAIN files \cup {<<s, volume_id>> : s \in nodes} |->
        IF p[2] = volume_id /\ p[1] \in nodes
        THEN truncate(IF p \in DOMAIN files THEN files[p] ELSE <<>>, size)
        ELSE files[p]]

\* RealStorageBackend.remove_volume_replicas
remove_volume_replicas(files, volume_id, nodes) ==
    [p \in {q \in DOMAIN files : ~(q[2] = volume_id /\ q[1] \in nodes)} |-> files[p]]

\* VolumeManager.create_volume
create_volume(pool_id, name, size, prov) ==
    LET pool == storage_pools[pool_id]
        vid == NextId(volumes)
        cap == allocate_capacity(pool, size, prov)
        alloc == allocate_chunks(cap.pool, vid, size, chunks, replicas, sds_nodes)
        row(state) == [id |-> vid, name |-> name, pool_id |-> pool_id, size |-> size,
                       provisioning |-> prov, used |-> cap.vol_used, state |-> state,
                       mapping_count |-> 0]
    IN \* rejected with nothing written: the name exists, or allocate_capacity
       \* fails and the flushed volume row is rolled back
       /\ \A i \in 1..Len(volumes) : volumes[i].name # name
       /\ cap.ok
       /\ WithinSdsCap(alloc.sds)
       /\ IF alloc.count = 0
          THEN \* allocate_capacity has committed the row and the pool update;
               \* the rollback that follows has nothing left to undo
               /\ last' = Result("create_volume", FALSE, "chunks")
               /\ storage_pools' = [storage_pools EXCEPT ![pool_id] = cap.pool]
               /\ volumes' = Append(volumes, row("CREATING"))
               /\ UNCHANGED <<sds_nodes, chunks, replicas, replica_files>>
          ELSE /\ last' = Result("create_volume", TRUE, "ok")
               /\ replica_files' = resize_volume_replicas(replica_files, vid, size,
                      get_replica_sds_nodes(alloc.chunks, alloc.replicas, vid))
               /\ storage_pools' = [storage_pools EXCEPT ![pool_id] = cap.pool]
               /\ volumes' = Append(volumes, row("AVAILABLE"))
               /\ chunks' = alloc.chunks
               /\ replicas' = alloc.replicas
               /\ sds_nodes' = alloc.sds
       /\ UNCHANGED <<cluster_nodes, rebuild_jobs, now, written>>

\* VolumeManager.extend_volume
extend_volume(i, additional) ==
    LET vol == volumes[i]
        pool == storage_pools[vol.pool_id]
        cap == extend_volume_capacity(pool, vol, additional)
        alloc == allocate_chunks(cap.pool, vol.id, cap.size, chunks, replicas, sds_nodes)
    IN \* rejected with nothing written when extend_volume_capacity fails
       /\ cap.ok
       /\ cap.size <= MaxVolHalfChunks * HalfChunk
       /\ WithinSdsCap(alloc.sds)
       \* the chunk count returned by allocate_chunks is not checked
       /\ last' = Result("extend_volume", TRUE,
                         IF alloc.count = 0 THEN "no chunks" ELSE "ok")
       /\ storage_pools' = [storage_pools EXCEPT ![vol.pool_id] = cap.pool]
       /\ volumes' = [volumes EXCEPT ![i].size = cap.size]
       /\ chunks' = alloc.chunks
       /\ replicas' = alloc.replicas
       /\ sds_nodes' = alloc.sds
       \* new_total_size is the size extend_volume_capacity left on the
       \* volume row plus additional_gb
       /\ replica_files' = resize_volume_replicas(replica_files, vol.id,
              cap.size + additional,
              get_replica_sds_nodes(alloc.chunks, alloc.replicas, vol.id))
       /\ UNCHANGED <<cluster_nodes, rebuild_jobs, now, written>>

\* ------------------------------------------------------------------------
\* StorageEngine: health
\* ------------------------------------------------------------------------
VolumeIdsOfPool(vols, pool_id) ==
    {vols[i].id : i \in {j \in 1..Len(vols) : vols[j].pool_id = pool_id}}

\* Count of replicas of the chunk with is_available.
AvailableReplicas(rs, cid) ==
    Cardinality({i \in 1..Len(rs) : rs[i].chunk_id = cid /\ rs[i].is_available})

\* update_pool_health: the health value written to the pool.
update_pool_health(pool_id, pools, sn, vols, cs, rs) ==
    LET vids == VolumeIdsOfPool(vols, pool_id)
        mine == {j \in 1..Len(cs) : cs[j].volume_id \in vids}
        down_count == Cardinality({s \in SdsIds : sn[s].pd = pools[pool_id].pd
                                                  /\ sn[s].state = "DOWN"})
        data_loss_detected == \E j \in mine : AvailableReplicas(rs, cs[j].id) = 0
        pool_degraded == \E j \in mine : /\ AvailableReplicas(rs, cs[j].id) # 0
                                         /\ AvailableReplicas(rs, cs[j].id) < 2
    IN IF data_loss_detected THEN "FAILED"
       ELSE IF pool_degraded \/ down_count > 0 THEN "DEGRADED"
       ELSE "OK"

\* Index of the first replica row of the chunk on the SDS (0 if none).
FirstReplicaOn(rs, cid, sds_id) ==
    LET hits == {i \in 1..Len(rs) : rs[i].chunk_id = cid /\ rs[i].sds_id = sds_id}
    IN IF hits = {} THEN 0 ELSE CHOOSE i \in hits : \A k \in hits : i <= k

\* mark_chunks_degraded: [chunks, replicas].
mark_chunks_degraded(sds_id, pool_id, vols, cs, rs) ==
    LET vids == VolumeIdsOfPool(vols, pool_id)
        hit(j) == cs[j].volume_id \in vids /\ FirstReplicaOn(rs, cs[j].id, sds_id) # 0
        marked == {FirstReplicaOn(rs, cs[j].id, sds_id) :
                      j \in {k \in 1..Len(cs) : hit(k)}}
        rs2 == Tabulate([i \in 1..Len(rs) |->
                   IF i \in marked THEN [rs[i] EXCEPT !.is_available = FALSE]
                   ELSE rs[i]])
    IN [replicas |-> rs2,
        chunks |-> Tabulate([j \in 1..Len(cs) |->
                      IF hit(j) /\ AvailableReplicas(rs2, cs[j].id) < 2
                      THEN [cs[j] EXCEPT !.is_degraded = TRUE]
                      ELSE cs[j]])]

\* heal_chunks_on_recovery, and the same pass at rebuild completion.
heal_chunks_on_recovery(pool_id, vols, cs, rs) ==
    LET vids == VolumeIdsOfPool(vols, pool_id)
    IN Tabulate([j \in 1..Len(cs) |->
          IF /\ cs[j].volume_id \in vids
             /\ cs[j].is_degraded
             /\ AvailableReplicas(rs, cs[j].id) >= 2
          THEN [cs[j] EXCEPT !.is_degraded = FALSE]
          ELSE cs[j]])

\* The writes of delete_volume for a volume row as the handler read it.
delete_volume_commit(vol) ==
    LET cs2 == SelectSeq(chunks, LAMBDA c : c.volume_id # vol.id)
        gone == {chunks[j].id : j \in {k \in 1..Len(chunks) :
                                          chunks[k].volume_id = vol.id}}
        rs2 == SelectSeq(replicas, LAMBDA r : r.chunk_id \notin gone)
        vs2 == SelectSeq(volumes, LAMBDA v : v.id # vol.id)
        pools2 == [storage_pools EXCEPT
                     ![vol.pool_id] = deallocate_capacity(@, vol)]
    IN /\ last' = Result("delete_volume", TRUE, "ok")
       /\ replica_files' = remove_volume_replicas(replica_files, vol.id,
              get_replica_sds_nodes(chunks, replicas, vol.id))
       /\ written' = IF written.volume_id = vol.id THEN NoWrite ELSE written
       /\ volumes' = vs2
       /\ chunks' = cs2
       /\ replicas' = rs2
       /\ storage_pools' = [pools2 EXCEPT ![vol.pool_id].health =
             update_pool_health(vol.pool_id, pools2, sds_nodes, vs2, cs2, rs2)]
       /\ UNCHANGED <<sds_nodes, cluster_nodes, rebuild_jobs, now>>

\* delete_volume without validate_volume_can_delete.
delete_volume_unvalidated(i) ==
    delete_volume_commit(volumes[i]) /\ UNCHANGED volume_mappings

\* VolumeManager.delete_volume
delete_volume(i) ==
    \* validate_volume_can_delete
    IF volumes[i].mapping_count > 0
    THEN /\ last' = Result("delete_volume", FALSE, "mapped")
         /\ UNCHANGED <<storage_pools, sds_nodes, cluster_nodes, volumes, chunks,
                        replicas, rebuild_jobs, now, volume_mappings,
                        replica_files, written>>
    ELSE delete_volume_commit(volumes[i]) /\ UNCHANGED volume_mappings

\* ------------------------------------------------------------------------
\* RebuildEngine
\* ------------------------------------------------------------------------
RECURSIVE DegradedChunks(_, _, _, _)
\* degraded_chunks of start_rebuild: per volume of the pool (id order), the
\* volume's chunks with is_degraded (id order); the result holds chunk ids.
DegradedChunks(vols, cs, pool_id, i) ==
    IF i > Len(vols) THEN <<>>
    ELSE LET mine == IF vols[i].pool_id = pool_id
                     THEN SelectSeq(cs, LAMBDA c : c.volume_id = vols[i].id
                                                   /\ c.is_degraded)
                     ELSE <<>>
         IN Tabulate([k \in 1..Len(mine) |-> mine[k].id])
            \o DegradedChunks(vols, cs, pool_id, i + 1)

\* score_sds of _find_rebuild_target
score_sds(s, sn, existing_fault_sets) ==
    (IF sn[s].fault_set \notin existing_fault_sets THEN FaultSetBonus ELSE 0)
    + (sn[s].total - sn[s].used)

\* _find_rebuild_target: the chosen SDS id, 0 for None.
find_rebuild_target(pd, cid, rs, sn) ==
    LET existing_sds_ids == {rs[i].sds_id : i \in {k \in 1..Len(rs) :
                                rs[k].chunk_id = cid /\ ~rs[k].is_rebuilding}}
        existing_fault_sets == {sn[s].fault_set : s \in existing_sds_ids} \ {0}
        available_sds == {s \in SdsIds : /\ sn[s].pd = pd
                                         /\ sn[s].state = "UP"
                                         /\ s \notin existing_sds_ids}
    IN IF available_sds = {} THEN 0
       ELSE CHOOSE s \in available_sds :
              \A t \in available_sds :
                 \/ score_sds(s, sn, existing_fault_sets)
                      > score_sds(t, sn, existing_fault_sets)
                 \/ /\ score_sds(s, sn, existing_fault_sets)
                         = score_sds(t, sn, existing_fault_sets)
                    /\ s <= t

\* A RebuildJob of the pool is IN_PROGRESS.
HasActiveJob(jobs, pool_id) ==
    \E k \in 1..Len(jobs) : jobs[k].pool_id = pool_id /\ jobs[k].state = "in_progress"

\* start_rebuild without its check for a rebuild already in progress.
start_rebuild_unchecked(pool_id, st, vols, sn, t) ==
    LET degraded_chunks == DegradedChunks(vols, st.chunks, pool_id, 1)
        job == [pool_id |-> pool_id, state |-> "in_progress", progress_percent |-> 0,
                total_bytes_to_rebuild |-> Len(degraded_chunks) * REBUILD_CHUNK_SIZE_MB,
                bytes_rebuilt |-> 0, rate |-> st.pools[pool_id].rate, started_at |-> t,
                degraded_chunks |-> Range(degraded_chunks)]
    IN IF Len(degraded_chunks) = 0
       THEN [ok |-> FALSE, msg |-> "no degraded", pools |-> st.pools,
             replicas |-> st.replicas, jobs |-> st.jobs]
       ELSE [ok |-> TRUE, msg |-> "started",
             pools |-> [st.pools EXCEPT ![pool_id].rebuild_state = "in_progress",
                                        ![pool_id].rebuild_progress = 0],
             replicas |-> st.replicas, jobs |-> Append(st.jobs, job)]

\* RebuildEngine.start_rebuild on the tables st = [pools, chunks, replicas, jobs]:
\* [ok, msg, pools, replicas, jobs].
start_rebuild(pool_id, st, vols, sn, t) ==
    LET degraded_chunks == DegradedChunks(vols, st.chunks, pool_id, 1)
        pool == st.pools[pool_id]
        job == [pool_id |-> pool_id, state |-> "in_progress", progress_percent |-> 0,
                total_bytes_to_rebuild |-> Len(degraded_chunks) * REBUILD_CHUNK_SIZE_MB,
                bytes_rebuilt |-> 0, rate |-> pool.rate, started_at |-> t,
                \* not a column: the ids of the chunks the job was started for
                degraded_chunks |-> Range(degraded_chunks)]
        queued == Tabulate([k \in 1..Len(degraded_chunks) |->
                     [chunk_id |-> degraded_chunks[k],
                      sds_id |-> find_rebuild_target(pool.pd, degraded_chunks[k],
                                                     st.replicas, sn),
                      is_available |-> FALSE, is_current |-> FALSE,
                      is_rebuilding |-> TRUE]])
    IN IF HasActiveJob(st.jobs, pool_id)
       THEN [ok |-> FALSE, msg |-> "in progress", pools |-> st.pools,
             replicas |-> st.replicas, jobs |-> st.jobs]
       ELSE IF Len(degraded_chunks) = 0
       THEN [ok |-> FALSE, msg |-> "no degraded", pools |-> st.pools,
             replicas |-> st.replicas, jobs |-> st.jobs]
       ELSE [ok |-> TRUE, msg |-> "started",
             pools |-> [st.pools EXCEPT ![pool_id].rebuild_state = "in_progress",
                                        ![pool_id].rebuild_progress = 0],
             replicas |-> st.replicas \o SelectSeq(queued, LAMBDA r : r.sds_id # 0),
             jobs |-> Append(st.jobs, job)]

\* Pools with a volume that has a replica on the SDS.
AffectedPools(sds_id, vols, cs, rs) ==
    LET cids == {rs[i].chunk_id : i \in {k \in 1..Len(rs) : rs[k].sds_id = sds_id}}
        vids == {cs[j].volume_id : j \in {k \in 1..Len(cs) : cs[k].id \in cids}}
    IN {vols[i].pool_id : i \in {k \in 1..Len(vols) : vols[k].id \in vids}}

RECURSIVE FailPools(_, _, _, _, _, _)
\* The loop of fail_sds_node over the affected pools:
\* st = [pools, chunks, replicas, jobs, msg, failed].
FailPools(pool_ids, sds_id, st, vols, sn, t) ==
    IF Len(pool_ids) = 0 THEN st
    ELSE LET p == Head(pool_ids)
             marked == mark_chunks_degraded(sds_id, p, vols, st.chunks, st.replicas)
             st2 == [pools |-> [st.pools EXCEPT ![p].health = "DEGRADED",
                                                ![p].rebuild_state = "idle"],
                     chunks |-> marked.chunks, replicas |-> marked.replicas,
                     jobs |-> st.jobs]
             rb == start_rebuild(p, st2, vols, sn, t)
         IN FailPools(Tail(pool_ids), sds_id,
                      [pools |-> rb.pools, chunks |-> st2.chunks,
                       replicas |-> rb.replicas, jobs |-> rb.jobs, msg |-> rb.msg,
                       \* "Failed to start auto-rebuild" is logged
                       failed |-> st.failed + (IF rb.ok THEN 0 ELSE 1)],
                      vols, sn, t)

\* RebuildEngine.fail_sds_node
fail_sds_node(sds_id) ==
    LET sn2 == [sds_nodes EXCEPT ![sds_id].state = "DOWN"]
        st == FailPools(SetToSeq(AffectedPools(sds_id, volumes, chunks, replicas)),
                        sds_id,
                        [pools |-> storage_pools, chunks |-> chunks,
                         replicas |-> replicas, jobs |-> rebuild_jobs, msg |-> "none",
                         failed |-> 0],
                        volumes, sn2, now)
    IN \* "SDS already DOWN" is rejected
       /\ sds_nodes[sds_id].state # "DOWN"
       /\ Len(st.jobs) <= MaxJobs
       /\ last' = Result("fail_sds_node", TRUE, st.msg)
       /\ sds_nodes' = sn2
       /\ storage_pools' = st.pools
       /\ chunks' = st.chunks
       /\ replicas' = st.replicas
       /\ rebuild_jobs' = st.jobs
       /\ rebuild_failed_events' = rebuild_failed_events + st.failed
       /\ UNCHANGED <<cluster_nodes, volumes, now>>

RECURSIVE RecoverPools(_, _, _, _, _)
\* The loop of recover_sds_node over the affected pools: st = [pools, chunks].
RecoverPools(pool_ids, st, vols, rs, sn) ==
    IF Len(pool_ids) = 0 THEN st
    ELSE LET p == Head(pool_ids)
             cs2 == heal_chunks_on_recovery(p, vols, st.chunks, rs)
         IN RecoverPools(Tail(pool_ids),
                         [pools |-> [st.pools EXCEPT ![p].health =
                                        update_pool_health(p, st.pools, sn, vols, cs2, rs)],
                          chunks |-> cs2],
                         vols, rs, sn)

\* RebuildEngine.recover_sds_node
recover_sds_node(sds_id) ==
    LET sn2 == [sds_nodes EXCEPT ![sds_id].state = "UP"]
        rs2 == Tabulate([i \in 1..Len(replicas) |->
                  IF replicas[i].sds_id = sds_id
                  THEN [replicas[i] EXCEPT !.is_available = TRUE]
                  ELSE replicas[i]])
        st == RecoverPools(SetToSeq(AffectedPools(sds_id, volumes, chunks, replicas)),
                           [pools |-> storage_pools, chunks |-> chunks],
                           volumes, rs2, sn2)
    IN \* "SDS not DOWN" is rejected
       /\ sds_nodes[sds_id].state = "DOWN"
       /\ last' = Result("recover_sds_node", TRUE, "ok")
       /\ sds_nodes' = sn2
       /\ replicas' = rs2
       /\ storage_pools' = st.pools
       /\ chunks' = st.chunks
       /\ UNCHANGED <<cluster_nodes, volumes, rebuild_jobs, now>>

\* Explicit start of a rebuild (logic.start_rebuild -> RebuildEngine.start_rebuild).
StartRebuildOp(pool_id) ==
    LET rb == start_rebuild(pool_id,
                            [pools |-> storage_pools, chunks |-> chunks,
                             replicas |-> replicas, jobs |-> rebuild_jobs],
                            volumes, sds_nodes, now)
    IN \* a refused start writes nothing
       /\ rb.ok
       /\ Len(rb.jobs) <= MaxJobs
       /\ last' = Result("start_rebuild", rb.ok, rb.msg)
       /\ storage_pools' = rb.pools
       /\ replicas' = rb.replicas
       /\ rebuild_jobs' = rb.jobs
       /\ UNCHANGED <<sds_nodes, cluster_nodes, volumes, chunks, now>>

REBUILD_CHUNK_BYTES == REBUILD_CHUNK_SIZE_MB * 1024 * 1024

\* int(new_bytes_rebuilt / job_total_bytes * 100), 0 for an empty job; the
\* product is split so that it stays within 32 bits.
ProgressPercent(new_bytes, total) ==
    IF total > 0
    THEN (new_bytes \div total) * 100 + ((new_bytes % total) * 100) \div total
    ELSE 0

\* RebuildEngine.update_rebuild_progress
update_rebuild_progress(pool_id) ==
    LET active == {k \in 1..Len(rebuild_jobs) :
                      /\ rebuild_jobs[k].pool_id = pool_id
                      /\ rebuild_jobs[k].state = "in_progress"}
        job == rebuild_jobs[CHOOSE k \in active : \A m \in active : k <= m]
        pool == storage_pools[pool_id]
        \* every replica with is_rebuilding, of any pool
        rebuilding == {i \in 1..Len(replicas) : replicas[i].is_rebuilding}
        replicas_to_complete == pool.rate \div REBUILD_CHUNK_SIZE_MB
        done == {i \in rebuilding :
                    Cardinality({k \in rebuilding : k < i}) < replicas_to_complete}
        new_bytes_rebuilt == job.bytes_rebuilt + Cardinality(done) * REBUILD_CHUNK_BYTES
        new_progress == ProgressPercent(new_bytes_rebuilt, job.total_bytes_to_rebuild)
        stalled == /\ now - job.started_at > STALL_DETECTION_TIMEOUT_SEC
                   /\ new_bytes_rebuilt = 0
        healed == heal_chunks_on_recovery(pool_id, volumes, chunks, replicas)
        poolsDone == [storage_pools EXCEPT ![pool_id].rebuild_state = "completed",
                                           ![pool_id].rebuild_progress = 100]
    IN \* "No active rebuild for pool" is rejected
       /\ active # {}
       /\ IF rebuilding = {}
          THEN /\ last' = Result("update_rebuild_progress", TRUE, "completed")
               /\ rebuild_jobs' = Tabulate([k \in 1..Len(rebuild_jobs) |->
                     IF rebuild_jobs[k].pool_id = pool_id
                     THEN [rebuild_jobs[k] EXCEPT !.state = "completed",
                                                  !.progress_percent = 100]
                     ELSE rebuild_jobs[k]])
               /\ chunks' = healed
               /\ storage_pools' = [poolsDone EXCEPT ![pool_id].health =
                     update_pool_health(pool_id, poolsDone, sds_nodes, volumes,
                                        healed, replicas)]
               /\ UNCHANGED <<replicas, rebuild_failed_events>>
          ELSE /\ last' = Result("update_rebuild_progress", TRUE,
                                 IF stalled THEN "stalled" ELSE "progress")
               \* "Rebuild stalled: no progress detected" is logged
               /\ rebuild_failed_events' = rebuild_failed_events
                                              + (IF stalled THEN 1 ELSE 0)
               /\ replicas' = Tabulate([i \in 1..Len(replicas) |->
                     IF i \in done
                     THEN [replicas[i] EXCEPT !.is_rebuilding = FALSE,
                                              !.is_available = TRUE]
                     ELSE replicas[i]])
               /\ rebuild_jobs' = Tabulate([k \in 1..Len(rebuild_jobs) |->
                     IF rebuild_jobs[k].pool_id = pool_id
                     THEN [rebuild_jobs[k] EXCEPT
                             !.bytes_rebuilt = new_bytes_rebuilt,
                             !.progress_percent = new_progress,
                             !.state = IF stalled THEN "stalled" ELSE @]
                     ELSE rebuild_jobs[k]])
               /\ storage_pools' = [storage_pools EXCEPT
                     ![pool_id].rebuild_state = IF stalled THEN "stalled" ELSE @,
                     ![pool_id].rebuild_progress = new_progress]
               /\ UNCHANGED chunks
       /\ UNCHANGED <<sds_nodes, cluster_nodes, volumes, now>>

\* Passage of time between operations.
AdvanceClock ==
    /\ \E t \in TimePoints : now < t /\ t <= MaxTime /\ now' = t
    /\ last' = Result("clock", TRUE, "ok")
    /\ UNCHANGED <<storage_pools, sds_nodes, cluster_nodes, volumes, chunks,
                   replicas, rebuild_jobs>>

\* ------------------------------------------------------------------------
\* Mapping, cluster membership and I/O planning
\* ------------------------------------------------------------------------
\* Registered SDC clients, and the one that issues the I/O requests.
SdcIds == {1, 2}
IoSdcIds == {1}
AccessModes == {"readWrite", "readOnly"}
\* The statuses heartbeats report, of ACTIVE, DEGRADED, DOWN and UNKNOWN.
HeartbeatStatuses == {"ACTIVE", "DOWN"}

\* id of a new VolumeMapping row.
NextMappingId ==
    LET ids == {m.id : m \in volume_mappings} \cup {0}
    IN (CHOOSE x \in ids : \A y \in ids : x >= y) + 1

\* The writes of map_volume for a volume row as the handler read it: the
\* VolumeMapping row, the UPDATE of the volume by id (no row, no effect) and
\* the pool's health.
map_volume_commit(vol, sdc_id, access_mode) ==
    LET new_mapping_count == vol.mapping_count + 1
        vols2 == Tabulate([k \in 1..Len(volumes) |->
                    IF volumes[k].id = vol.id
                    THEN [volumes[k] EXCEPT
                            !.mapping_count = new_mapping_count,
                            !.state = IF new_mapping_count = 1
                                      THEN "IN_USE" ELSE vol.state]
                    ELSE volumes[k]])
    IN /\ last' = Result("map_volume", TRUE, "ok")
       /\ volume_mappings' = volume_mappings \cup
             {[id |-> NextMappingId, volume_id |-> vol.id, sdc_id |-> sdc_id,
               access_mode |-> access_mode]}
       /\ volumes' = vols2
       /\ storage_pools' = [storage_pools EXCEPT ![vol.pool_id].health =
             update_pool_health(vol.pool_id, storage_pools, sds_nodes, vols2,
                                chunks, replicas)]
       /\ UNCHANGED <<sds_nodes, cluster_nodes, chunks, replicas, rebuild_jobs, now>>

\* "Volume already mapped to SDC": a VolumeMapping row of the pair exists.
AlreadyMapped(volume_id, sdc_id) ==
    \E m \in volume_mappings : m.volume_id = volume_id /\ m.sdc_id = sdc_id

\* The tables of the MDM a refused request leaves as they were.
Refused(op, msg) ==
    /\ last' = Result(op, FALSE, msg)
    /\ UNCHANGED <<storage_pools, sds_nodes, cluster_nodes, volumes, chunks,
                   replicas, rebuild_jobs, now, volume_mappings>>

\* replica_paths of map_volume is not empty: an SDS holds a replica of the
\* volume (create_volume made the volume's file on each of them).
HasReplicaPaths(volume_id) ==
    \E r \in 1..Len(replicas), c \in 1..Len(chunks) :
        chunks[c].volume_id = volume_id /\ replicas[r].chunk_id = chunks[c].id

\* map_volume without its check for an existing mapping of the pair.
map_volume_unchecked(i, sdc_id, access_mode) ==
    /\ volumes[i].state \notin {"DEGRADED", "DELETING"}
    /\ IF ~HasReplicaPaths(volumes[i].id)
       THEN Refused("map_volume", "failed")
       ELSE map_volume_commit(volumes[i], sdc_id, access_mode)

\* VolumeManager.map_volume (the SDC's cluster node is ACTIVE)
map_volume(i, sdc_id, access_mode) ==
    \* validate_volume_can_map
    /\ volumes[i].state \notin {"DEGRADED", "DELETING"}
    /\ IF AlreadyMapped(volumes[i].id, sdc_id)
       THEN Refused("map_volume", "already mapped")
       ELSE IF ~HasReplicaPaths(volumes[i].id)
       \* create_mapped_device raises and the mapping is rolled back
       THEN Refused("map_volume", "failed")
       ELSE map_volume_commit(volumes[i], sdc_id, access_mode)

\* The writes of unmap_volume for a volume row as the handler read it and
\* the mapping row it found.
unmap_volume_commit(vol, mapping) ==
    LET new_mapping_count == Max(0, vol.mapping_count - 1)
    IN /\ last' = Result("unmap_volume", TRUE, "ok")
       /\ volume_mappings' = {m \in volume_mappings : m.id # mapping.id}
       /\ volumes' = Tabulate([k \in 1..Len(volumes) |->
                    IF volumes[k].id = vol.id
                    THEN [volumes[k] EXCEPT
                            !.mapping_count = new_mapping_count,
                            !.state = IF new_mapping_count = 0
                                      THEN "AVAILABLE" ELSE vol.state]
                    ELSE volumes[k]])
       /\ UNCHANGED <<storage_pools, sds_nodes, cluster_nodes, chunks, replicas,
                      rebuild_jobs, now>>

\* The mapping row unmap_volume finds for the pair: the first, in id order.
FirstMapping(volume_id, sdc_id) ==
    CHOOSE m \in volume_mappings :
        /\ m.volume_id = volume_id /\ m.sdc_id = sdc_id
        /\ \A n \in volume_mappings :
              (n.volume_id = volume_id /\ n.sdc_id = sdc_id) => m.id <= n.id

\* VolumeManager.unmap_volume
unmap_volume(i, sdc_id) ==
    IF ~AlreadyMapped(volumes[i].id, sdc_id)
    THEN Refused("unmap_volume", "not mapped")
    ELSE unmap_volume_commit(volumes[i], FirstMapping(volumes[i].id, sdc_id))

\* heartbeat_node with a status in the payload, for the cluster node of an SDS
heartbeat_node(s, status) ==
    /\ cluster_nodes' = [cluster_nodes EXCEPT ![s] = status]
    /\ node_last_heartbeat' = [node_last_heartbeat EXCEPT ![s] = now]
    /\ last' = Result("heartbeat_node", TRUE, "ok")
    /\ UNCHANGED <<storage_pools, sds_nodes, volumes, chunks, replicas,
                   rebuild_jobs, now>>

\* Chunk ids of the volume.
ChunkIdsOfVolume(volume_id) ==
    {chunks[j].id : j \in {k \in 1..Len(chunks) : chunks[k].volume_id = volume_id}}

\* _active_sds_endpoint_map_for_volume: its keys, the SDS ids that hold a
\* replica of the volume and whose cluster node has status ACTIVE.
active_sds_endpoint_map_for_volume(volume_id) ==
    {s \in SdsIds :
        /\ \E i \in 1..Len(replicas) : /\ replicas[i].sds_id = s
                                       /\ replicas[i].chunk_id \in ChunkIdsOfVolume(volume_id)
        /\ cluster_nodes[s] = "ACTIVE"}

RECURSIVE SegmentTargets(_, _, _)
\* targets of a segment: one entry per replica row of the chunk, ordered by
\* sds_id, keeping the rows whose SDS is in the endpoint map.
SegmentTargets(chunk_id, endpoint_map, s) ==
    IF s > Cardinality(SdsIds) THEN <<>>
    ELSE LET rows == SelectSeq(replicas, LAMBDA r : r.chunk_id = chunk_id /\ r.sds_id = s)
         IN (IF s \in endpoint_map
             THEN Tabulate([k \in 1..Len(rows) |-> s])
             ELSE <<>>)
            \o SegmentTargets(chunk_id, endpoint_map, s + 1)

\* by_index of _build_chunk_segments: the chunk row of the volume at the
\* index (the last one in id order), 0 if there is none.
ChunkAtIndex(volume_id, chunk_index) ==
    LET hits == {j \in 1..Len(chunks) : /\ chunks[j].volume_id = volume_id
                                        /\ chunks[j].idx = chunk_index}
    IN IF hits = {} THEN 0 ELSE CHOOSE j \in hits : \A k \in hits : k <= j

\* Every chunk index of the range has a chunk row (otherwise HTTP 500).
RangeHasChunks(volume_id, offset, length) ==
    \A x \in (offset \div ChunkUnits)..((offset + length - 1) \div ChunkUnits) :
        ChunkAtIndex(volume_id, x) # 0

RECURSIVE build_chunk_segments(_, _, _)
\* _build_chunk_segments from offset current up to end_exclusive; offsets and
\* lengths are in capacity units (a chunk is ChunkUnits long).
build_chunk_segments(volume_id, current, end_exclusive) ==
    IF current >= end_exclusive THEN <<>>
    ELSE LET chunk_index == current \div ChunkUnits
             chunk_end == chunk_index * ChunkUnits + ChunkUnits
             segment_end == IF chunk_end <= end_exclusive THEN chunk_end
                            ELSE end_exclusive
             chunk == chunks[ChunkAtIndex(volume_id, chunk_index)]
         IN <<[chunk_id |-> chunk.id, chunk_index |-> chunk_index,
               chunk_generation |-> chunk.generation,
               segment_offset_bytes |-> current,
               segment_length_bytes |-> segment_end - current,
               targets |-> SegmentTargets(chunk.id,
                              active_sds_endpoint_map_for_volume(volume_id), 1)]>>
            \o build_chunk_segments(volume_id, segment_end, end_exclusive)

\* _validate_mapping_for_io
validate_mapping_for_io(volume_id, sdc_id, require_write) ==
    \E m \in volume_mappings :
        /\ m.volume_id = volume_id
        /\ m.sdc_id = sdc_id
        /\ require_write => m.access_mode # "readOnly"

\* plan_volume_read and plan_volume_write (an MDM-capable node is ACTIVE)
plan_volume(operation, i, sdc_id, offset, length) ==
    LET vol == volumes[i]
        segments == build_chunk_segments(vol.id, offset, offset + length)
    IN \* HTTP 403, 500 and 503 return no plan
       /\ validate_mapping_for_io(vol.id, sdc_id, operation = "write")
       /\ RangeHasChunks(vol.id, offset, length)
       /\ \A k \in 1..Len(segments) : Len(segments[k].targets) # 0
       /\ io_plan' = [operation |-> operation, volume_id |-> vol.id,
                      segments |-> segments]
       /\ last' = Result(IF operation = "read" THEN "plan_volume_read"
                         ELSE "plan_volume_write", TRUE, "ok")
       /\ UNCHANGED <<storage_pools, sds_nodes, cluster_nodes, volumes, chunks,
                      replicas, rebuild_jobs, now>>

\* ------------------------------------------------------------------------
\* Write paths
\* ------------------------------------------------------------------------
IoModes == {"network_prefer_local", "network_only"}
WriteAckPolicies == {"all", "quorum"}

\* _required_acks_for_segment
required_acks_for_segment(target_count, policy) ==
    IF target_count <= 0 THEN 0
    ELSE IF policy = "quorum" THEN (target_count \div 2) + 1
    ELSE target_count

\* What the targets answer: for each segment, how many of its targets
\* return ok to the write sent to them.
AckOutcomes(segments) ==
    {a \in [1..Len(segments) -> 0..Cardinality(SdsIds)] :
        \A k \in 1..Len(segments) : a[k] <= Len(segments[k].targets)}

\* The write's outcome per segment as the caller could observe it.
SegmentAcks(segments, acks, dispatched, policy) ==
    Tabulate([k \in 1..Len(segments) |->
        [targets |-> Len(segments[k].targets),
         acks |-> IF k <= dispatched THEN acks[k] ELSE 0,
         required |-> required_acks_for_segment(Len(segments[k].targets), policy)]])

RECURSIVE SortedIds(_)
\* sorted(paths), a path standing for the id of its SDS: the folder of SDS n
\* is "sds-n".
SortedIds(ids) ==
    IF ids = {} THEN <<>>
    ELSE LET least == CHOOSE x \in ids : \A y \in ids : x <= y
         IN <<least>> \o SortedIds(ids \ {least})

\* replica_paths of get_volume_details: list_replica_paths over the
\* volume's replica nodes keeps the files that exist.
list_replica_paths(volume_id) ==
    SortedIds({s \in get_replica_sds_nodes(chunks, replicas, volume_id) :
                  <<s, volume_id>> \in DOMAIN replica_files})

\* Chunk file contents after seek(offset) and write(data): a gap past the
\* old end reads as zero bytes.
WriteAt(old, offset, data) ==
    Tabulate([i \in 1..Max(Len(old), offset + Len(data)) |->
        IF i > offset /\ i <= offset + Len(data) THEN data[i - offset]
        ELSE IF i <= Len(old) THEN old[i]
        ELSE 0])

\* RealStorageBackend.write_to_replica_paths
write_to_replica_paths(files, replica_paths, volume_id, offset, data) ==
    [p \in DOMAIN files |->
        IF p[2] = volume_id /\ \E k \in 1..Len(replica_paths) : replica_paths[k] = p[1]
        THEN WriteAt(files[p], offset, data)
        ELSE files[p]]

\* RealStorageBackend.read_from_replica_paths: seek and read on the first
\* path; a read past the end of the file returns what is there.
read_from_replica_paths(files, replica_paths, volume_id, offset, length) ==
    LET data == files[<<replica_paths[1], volume_id>>]
    IN SubSeq(data, offset + 1, IF offset + length <= Len(data) THEN offset + length
                                ELSE Len(data))

\* write_volume_bytes: the segment loop stops at the first segment without
\* targets or with fewer acks than required.
write_volume_bytes(i, sdc_id, offset, data, io_mode, write_policy, acks) ==
    LET vol == volumes[i]
        length == Len(data)
        replica_paths == list_replica_paths(vol.id)
    IN \* HTTP 403 and 404, and a range without chunk rows, end the request
       /\ validate_mapping_for_io(vol.id, sdc_id, TRUE)
       /\ replica_paths # <<>>
       /\ RangeHasChunks(vol.id, offset, length)
       /\ \E segments \in {build_chunk_segments(vol.id, offset, offset + length)} :
            LET short == {k \in 1..Len(segments) :
                            \/ Len(segments[k].targets) = 0
                            \/ acks[k] < required_acks_for_segment(
                                            Len(segments[k].targets), write_policy)}
                stop == IF short = {} THEN 0
                        ELSE CHOOSE k \in short : \A m \in short : k <= m
                dispatched == IF stop = 0 THEN Len(segments) ELSE stop
                acked == {segments[k].chunk_id :
                             k \in {m \in 1..Len(segments) : stop = 0 \/ m < stop}}
                failed == stop # 0 /\ io_mode = "network_only"
            IN /\ io_result' =
                    [op |-> "write_volume_bytes",
                     status |-> IF failed THEN "error" ELSE "written",
                     io_path |-> IF stop = 0 THEN "network" ELSE "local",
                     io_mode |-> io_mode, write_policy |-> write_policy,
                     segments |-> SegmentAcks(segments, acks, dispatched,
                                              write_policy)]
               /\ last' = Result("write_volume_bytes", ~failed,
                                 IF failed THEN "acks" ELSE "written")
               \* io_path local: the whole payload goes to the replica
               \* files at the payload's offset
               /\ replica_files' =
                    IF stop # 0 /\ ~failed
                    THEN write_to_replica_paths(replica_files, replica_paths,
                                                vol.id, offset, data)
                    ELSE replica_files
               \* the bytes of a write the SDS services took are not
               \* followed
               /\ written' =
                    IF failed THEN written
                    ELSE IF stop = 0 THEN NoWrite
                    ELSE [volume_id |-> vol.id, offset |-> offset, data |-> data]
               \* the Chunk rows of the acknowledged segments are committed
               \* with the response; an HTTP error commits nothing
               /\ chunks' = IF failed THEN chunks
                            ELSE Tabulate([j \in 1..Len(chunks) |->
                                    IF chunks[j].id \in acked
                                    THEN [chunks[j] EXCEPT !.generation = @ + 1]
                                    ELSE chunks[j]])
       /\ UNCHANGED <<storage_pools, sds_nodes, cluster_nodes, volumes, replicas,
                      rebuild_jobs, now>>

\* SDCCapability.write_direct with a plan fetched from the control plane:
\* every target of every segment is written, the counts are returned.
write_direct(i, sdc_id, offset, length, write_policy, acks) ==
    LET vol == volumes[i]
    IN \* plan_volume_write answers with an HTTP error
       /\ validate_mapping_for_io(vol.id, sdc_id, TRUE)
       /\ RangeHasChunks(vol.id, offset, length)
       /\ \E segments \in {build_chunk_segments(vol.id, offset, offset + length)} :
            /\ \A k \in 1..Len(segments) : Len(segments[k].targets) # 0
            /\ io_result' = [op |-> "write_direct", status |-> "counts",
                             io_path |-> "network", io_mode |-> "none",
                             write_policy |-> write_policy,
                             segments |-> SegmentAcks(segments, acks,
                                                      Len(segments), write_policy)]
       /\ last' = Result("write_direct", TRUE, "counts")
       /\ UNCHANGED <<storage_pools, sds_nodes, cluster_nodes, volumes, chunks,
                      replicas, rebuild_jobs, now>>

\* SDCDataClient.execute_io_plan for a WRITE whose replica list is the
\* target list of one chunk: success unless no replica acknowledged.
execute_io_plan(chunk_id, write_policy, success_count) ==
    LET plan_replicas == SegmentTargets(chunk_id, SdsIds, 1)
    IN \* "No replicas in IO plan"
       /\ Len(plan_replicas) # 0
       /\ success_count <= Len(plan_replicas)
       /\ io_result' = [op |-> "execute_io_plan",
                        status |-> IF success_count = 0 THEN "error" ELSE "ok",
                        io_path |-> "network", io_mode |-> "none",
                        write_policy |-> write_policy,
                        segments |-> <<[targets |-> Len(plan_replicas),
                                        acks |-> success_count,
                                        required |-> required_acks_for_segment(
                                            Len(plan_replicas), write_policy)]>>]
       /\ last' = Result("execute_io_plan", success_count # 0,
                         IF success_count = 0 THEN "all failed" ELSE "ok")
       /\ UNCHANGED <<storage_pools, sds_nodes, cluster_nodes, volumes, chunks,
                      replicas, rebuild_jobs, now>>

\* ------------------------------------------------------------------------
\* I/O tokens: the MDM's token authority and the SDS data port
\* ------------------------------------------------------------------------
TOKEN_TTL_SECONDS == 300
TokenTimePoints == {TOKEN_TTL_SECONDS, TOKEN_TTL_SECONDS + 1}
CLUSTER_SECRET == "cluster-secret"
Operations == {"read", "write"}

DecimalDigits == <<"0", "1", "2", "3", "4", "5", "6", "7", "8", "9">>

RECURSIVE Str(_)
\* The text of a non-negative integer in an f-string: its decimal digits.
Str(n) == IF n < 10 THEN <<DecimalDigits[n + 1]>>
          ELSE Str(n \div 10) \o <<DecimalDigits[(n % 10) + 1]>>

\* sign_token with a message that leaves the I/O range out.
sign_token_without_range(token_id, volume_id, operation, cluster_secret, offset_bytes, length_bytes) ==
    <<cluster_secret, Str(token_id) \o <<"|">> \o Str(volume_id) \o <<"|", operation>>>>

\* sign_token: HMAC-SHA256, keyed by the cluster secret, of the message
\* f"{token_id}|{volume_id}|{operation}|{offset_bytes}|{length_bytes}"; two
\* signatures are equal exactly when key and message are. The message is
\* the sequence of its characters, an operation name counting as one.
sign_token(token_id, volume_id, operation, cluster_secret, offset_bytes, length_bytes) ==
    <<cluster_secret,
      Str(token_id) \o <<"|">> \o Str(volume_id) \o <<"|", operation, "|">>
        \o Str(offset_bytes) \o <<"|">> \o Str(length_bytes)>>

\* verify_token
verify_token(token_id, volume_id, operation, signature, cluster_secret, offset_bytes, length_bytes) ==
    signature = sign_token(token_id, volume_id, operation, cluster_secret,
                           offset_bytes, length_bytes)

\* is_token_expired at time t
is_token_expired(expires_at, t) == t > expires_at

\* compute_token_expiry at time t
compute_token_expiry(t, ttl_seconds) == t + ttl_seconds

\* build_token_payload: what the SDC receives and later presents.
build_token_payload(row) ==
    [token_id |-> row.token_id, volume_id |-> row.volume_id,
     operation |-> row.operation, offset_bytes |-> row.offset_bytes,
     length_bytes |-> row.length_bytes, signature |-> row.signature,
     expires_at |-> row.expires_at]

\* TokenAuthority.issue_token with the default ttl
issue_token(volume_id, sdc_id, operation, offset_bytes, length_bytes) ==
    LET token_id == NextTokenId(io_tokens)
    IN \* ValueError: volume or SDC not found
       /\ \E i \in 1..Len(volumes) : volumes[i].id = volume_id
       /\ sdc_id \in SdcIds
       /\ Len(io_tokens) < MaxTokens
       /\ io_tokens' = Append(io_tokens,
             [token_id |-> token_id, volume_id |-> volume_id, sdc_id |-> sdc_id,
              operation |-> operation, offset_bytes |-> offset_bytes,
              length_bytes |-> length_bytes,
              expires_at |-> compute_token_expiry(now, TOKEN_TTL_SECONDS),
              signature |-> sign_token(token_id, volume_id, operation,
                                       CLUSTER_SECRET, offset_bytes, length_bytes),
              status |-> "ISSUED", consumed_at |-> <<>>])
       /\ last' = Result("issue_token", TRUE, "ok")
       /\ UNCHANGED <<consumed_tokens, local_replicas, ack_queue, io_request, transaction_acks, now>>

\* TokenAuthority.revoke_token
revoke_token(k) ==
    /\ io_tokens' = [io_tokens EXCEPT ![k].status = "REVOKED"]
    /\ last' = Result("revoke_token", TRUE, "ok")
    /\ UNCHANGED <<consumed_tokens, local_replicas, ack_queue, io_request, transaction_acks, now>>

\* TokenAuthority.cleanup_expired_tokens
cleanup_expired_tokens ==
    LET expired == {k \in 1..Len(io_tokens) : /\ io_tokens[k].status = "ISSUED"
                                              /\ io_tokens[k].expires_at < now}
    IN \* nothing is written when no token has expired
       /\ expired # {}
       /\ io_tokens' = Tabulate([k \in 1..Len(io_tokens) |->
             IF k \in expired THEN [io_tokens[k] EXCEPT !.status = "EXPIRED"]
             ELSE io_tokens[k]])
       /\ last' = Result("cleanup_expired_tokens", TRUE, "ok")
       /\ UNCHANGED <<consumed_tokens, local_replicas, ack_queue, io_request, transaction_acks, now>>

\* The AckQueue row _handle_write adds (ack_status and retry_count at their
\* column defaults).
PendingAck(token_id) == [token_id |-> token_id, ack_status |-> "PENDING", retry_count |-> 0]

\* The token ids of an SDS's ConsumedToken rows.
ConsumedIds(rows) == {rows[k].token_id : k \in 1..Len(rows)}

\* verify_io_token without the look-up of the token among the consumed ones.
verify_io_token_unrecorded(consumed, token, volume_id, operation, offset_bytes, length_bytes, t) ==
    IF is_token_expired(token.expires_at, t) THEN "expired"
    ELSE IF ~verify_token(token.token_id, token.volume_id, token.operation,
                          token.signature, CLUSTER_SECRET, token.offset_bytes,
                          token.length_bytes) THEN "signature"
    ELSE IF token.volume_id # volume_id THEN "volume"
    ELSE IF token.operation # operation THEN "operation"
    ELSE IF \/ offset_bytes < token.offset_bytes
            \/ offset_bytes + length_bytes > token.offset_bytes + token.length_bytes
         THEN "range"
    ELSE "ok"

\* TokenVerifier.verify_io_token at time t against the SDS's ConsumedToken
\* rows: "ok", or the reason of the refusal.
verify_io_token(consumed, token, volume_id, operation, offset_bytes, length_bytes, t) ==
    IF is_token_expired(token.expires_at, t) THEN "expired"
    ELSE IF token.token_id \in ConsumedIds(consumed) THEN "replay"
    ELSE IF ~verify_token(token.token_id, token.volume_id, token.operation,
                          token.signature, CLUSTER_SECRET, token.offset_bytes,
                          token.length_bytes) THEN "signature"
    ELSE IF token.volume_id # volume_id THEN "volume"
    ELSE IF token.operation # operation THEN "operation"
    ELSE IF \/ offset_bytes < token.offset_bytes
            \/ offset_bytes + length_bytes > token.offset_bytes + token.length_bytes
         THEN "range"
    ELSE "ok"

\* The SDS has a LocalReplica row for (chunk_id, volume_id): the MDM placed a
\* replica of that chunk of that volume on it.
HasLocalReplica(s, chunk_id, volume_id) ==
    /\ \E j \in 1..Len(chunks) : chunks[j].id = chunk_id /\ chunks[j].volume_id = volume_id
    /\ \E i \in 1..Len(replicas) : replicas[i].chunk_id = chunk_id /\ replicas[i].sds_id = s

\* SDSDataHandler._handle_write on SDS s. The ConsumedToken insert fails on a
\* token_id already present (unique column), after the data was written.
handle_write(s, token, volume_id, chunk_id, offset_bytes, data) ==
    LET verdict == verify_io_token(consumed_tokens[s], token, volume_id, "write",
                                   offset_bytes, Len(data), now)
        replica == local_replicas[s]
        row == [token_id |-> token.token_id, volume_id |-> volume_id,
                chunk_id |-> chunk_id, operation |-> "write",
                offset_bytes |-> offset_bytes, length_bytes |-> Len(data)]
    IN /\ io_request' = [sds |-> s, token |-> token, volume_id |-> volume_id,
                         chunk_id |-> chunk_id, operation |-> "write",
                         offset_bytes |-> offset_bytes,
                         length_bytes |-> Len(data), data |-> data]
       /\ IF verdict # "ok"
          THEN /\ last' = Result("sds_write", FALSE, verdict)
               /\ UNCHANGED <<local_replicas, consumed_tokens, ack_queue>>
          ELSE IF ~HasLocalReplica(s, chunk_id, volume_id)
          THEN /\ last' = Result("sds_write", FALSE, "not found")
               /\ UNCHANGED <<local_replicas, consumed_tokens, ack_queue>>
          ELSE \* the file and the LocalReplica row of another chunk than
               \* the one whose copies are followed are not kept
               /\ local_replicas' =
                      IF chunk_id \in RequestChunks
                      THEN [local_replicas EXCEPT ![s] =
                              [generation |-> replica.generation + 1,
                               data |-> WriteAt(replica.data, offset_bytes, data)]]
                      ELSE local_replicas
               /\ IF token.token_id \in ConsumedIds(consumed_tokens[s])
                  THEN /\ last' = Result("sds_write", FALSE, "error")
                       /\ UNCHANGED <<consumed_tokens, ack_queue>>
                  ELSE /\ last' = Result("sds_write", TRUE, "ok")
                       /\ consumed_tokens' = [consumed_tokens EXCEPT
                                                ![s] = Append(@, row)]
                       /\ ack_queue' = [ack_queue EXCEPT
                                          ![s] = Append(@, PendingAck(token.token_id))]
       /\ UNCHANGED <<io_tokens, transaction_acks, now>>

\* TokenAuthority.mark_token_consumed at time t, on the IOToken rows.
mark_token_consumed(tokens, token_id, t) ==
    [k \in 1..Len(tokens) |->
        IF tokens[k].token_id = token_id
        THEN [tokens[k] EXCEPT !.status = "CONSUMED", !.consumed_at = <<t>>]
        ELSE tokens[k]] @@ <<>>

\* TokenAuthority.record_transaction_ack at time t, on the MDM's token tables
\* db = [tokens, acks].
record_transaction_ack(db, token_id, sds_id, success, t) ==
    [tokens |-> IF success THEN mark_token_consumed(db.tokens, token_id, t) ELSE db.tokens,
     acks |-> Append(db.acks, [token_id |-> token_id, sds_id |-> sds_id, success |-> success])]

\* POST /io/tx/ack: 404 for a token the MDM does not know, otherwise the ack
\* is recorded.
acknowledge_transaction(token_id, sds_id, success) ==
    /\ \E k \in 1..Len(io_tokens) : io_tokens[k].token_id = token_id
    /\ \E db \in {record_transaction_ack([tokens |-> io_tokens, acks |-> transaction_acks], token_id, sds_id, success, now)} :
          /\ io_tokens' = db.tokens
          /\ transaction_acks' = db.acks
    /\ last' = Result("acknowledge_transaction", TRUE, "ok")
    /\ UNCHANGED <<consumed_tokens, local_replicas, ack_queue, io_request, now>>

\* The MDM's token tables after the acks of SDS s at the positions todo of its
\* queue were posted, in queue order (the SDS queues acks of successful IO only).
RECURSIVE PostAcks(_, _, _, _)
PostAcks(db, s, todo, t) ==
    IF todo = {} THEN db
    ELSE LET k == CHOOSE x \in todo : \A y \in todo : x <= y
         IN PostAcks(record_transaction_ack(db, ack_queue[s][k].token_id, s, TRUE, t),
                     s, todo \ {k}, t)

\* Positions of the PENDING rows of the SDS's queue.
PendingAcks(s) == {k \in 1..Len(ack_queue[s]) : ack_queue[s][k].ack_status = "PENDING"}

\* AckSender._send_batch of SDS s: every PENDING ack is posted to the MDM;
\* a delivered ack becomes SENT, one that is not delivered becomes FAILED and
\* its retry_count goes up by one.
send_batch(s, delivered) ==
    \* "No pending ACKs to send"
    /\ PendingAcks(s) # {}
    /\ delivered \subseteq PendingAcks(s)
    /\ \E db \in {PostAcks([tokens |-> io_tokens, acks |-> transaction_acks], s, delivered, now)} :
          /\ io_tokens' = db.tokens
          /\ transaction_acks' = db.acks
    /\ ack_queue' = [ack_queue EXCEPT ![s] = [k \in 1..Len(ack_queue[s]) |->
          IF k \in delivered THEN [ack_queue[s][k] EXCEPT !.ack_status = "SENT"]
          ELSE IF k \in PendingAcks(s)
          THEN [ack_queue[s][k] EXCEPT !.ack_status = "FAILED", !.retry_count = @ + 1]
          ELSE ack_queue[s][k]] @@ <<>>]
    /\ last' = Result("send_batch", TRUE, "ok")
    /\ UNCHANGED <<consumed_tokens, local_replicas, io_request, now>>

\* Passage of time up to and just past the expiry of the first tokens.
AdvanceTokenClock ==
    /\ \E t \in TokenTimePoints : now < t /\ now' = t
    /\ last' = Result("clock", TRUE, "ok")
    /\ UNCHANGED <<io_tokens, consumed_tokens, local_replicas, ack_queue, io_request, transaction_acks>>

\* A run performs at most op_limit operations.
CountEvent == op_count < op_limit /\ op_count' = op_count + 1 /\ op_limit' = op_limit

Count == CountEvent /\ rebuild_failed_events' = rebuild_failed_events

\* A step that touches neither the registry nor the nodes' heartbeat times.
CountStep == Count /\ UNCHANGED healthVars /\ UNCHANGED fileVars

\* A step of a handler that creates, resizes or removes replica files.
CountFileStep == Count /\ UNCHANGED healthVars /\ read_data' = read_data

\* An operation that runs from its first read to its commit with no other
\* handler in between.
CountOp == CountStep /\ handlers' = handlers

CountFileOp == CountFileStep /\ handlers' = handlers

\* An operation of the rebuild engine that may log a REBUILD_FAILED event.
CountEventOp == CountEvent /\ UNCHANGED <<healthVars, fileVars, handlers>>

\* Names matter only through their uniqueness: a new volume takes the first
\* name not in use (a name in use is rejected).
CreateVolume ==
    /\ CountFileOp
    /\ \E p \in PoolIds, n \in VolNames, s \in VolSizes, pr \in Provisionings :
        /\ \A m \in 1..(n - 1) : \E i \in 1..Len(volumes) : volumes[i].name = m
        /\ create_volume(p, n, s, pr)
    /\ UNCHANGED <<ioVars, tokenVars>>

ExtendVolume ==
    /\ CountFileOp
    /\ \E i \in 1..Len(volumes), a \in VolSizes : extend_volume(i, a)
    /\ UNCHANGED <<ioVars, tokenVars>>

DeleteVolume ==
    /\ CountFileOp
    /\ \E i \in 1..Len(volumes) : delete_volume(i)
    /\ UNCHANGED <<io_plan, io_result, tokenVars>>

FailSds ==
    /\ CountEventOp
    /\ \E s \in SdsIds : fail_sds_node(s)
    /\ UNCHANGED <<ioVars, tokenVars>>

RecoverSds ==
    /\ CountOp
    /\ \E s \in SdsIds : recover_sds_node(s)
    /\ UNCHANGED <<ioVars, tokenVars>>

StartRebuild ==
    /\ CountOp
    /\ \E p \in PoolIds : StartRebuildOp(p)
    /\ UNCHANGED <<ioVars, tokenVars>>

RebuildTick ==
    /\ CountEventOp
    /\ \E p \in PoolIds : update_rebuild_progress(p)
    /\ UNCHANGED <<ioVars, tokenVars>>

Tick ==
    /\ CountOp
    /\ AdvanceClock
    /\ UNCHANGED <<ioVars, tokenVars>>

MapVolume ==
    /\ CountOp
    /\ \E i \in 1..Len(volumes), c \in SdcIds, m \in AccessModes : map_volume(i, c, m)
    /\ UNCHANGED <<io_plan, io_result, tokenVars>>

UnmapVolume ==
    /\ CountOp
    /\ \E i \in 1..Len(volumes), c \in SdcIds : unmap_volume(i, c)
    /\ UNCHANGED <<io_plan, io_result, tokenVars>>

Heartbeat ==
    /\ Count
    /\ UNCHANGED <<handlers, component_registry, fileVars>>
    /\ \E s \in SdsIds, st \in HeartbeatStatuses : heartbeat_node(s, st)
    /\ UNCHANGED <<ioVars, tokenVars>>

PlanRead ==
    /\ CountOp
    /\ \E i \in 1..Len(volumes), c \in IoSdcIds, r \in PlanRanges :
          plan_volume("read", i, c, r[1], r[2])
    /\ UNCHANGED <<volume_mappings, io_result, tokenVars>>

PlanWrite ==
    /\ CountOp
    /\ \E i \in 1..Len(volumes), c \in IoSdcIds, r \in PlanRanges :
          plan_volume("write", i, c, r[1], r[2])
    /\ UNCHANGED <<volume_mappings, io_result, tokenVars>>

\* write_volume_bytes with what the targets may answer; the payload's bytes
\* are 1.
WriteVolumeBytes ==
    /\ CountFileOp
    /\ \E i \in 1..Len(volumes), c \in IoSdcIds, r \in PlanRanges, b \in {1},
          mode \in IoModes, policy \in WriteAckPolicies :
          /\ validate_mapping_for_io(volumes[i].id, c, TRUE)
          /\ RangeHasChunks(volumes[i].id, r[1], r[2])
          /\ \E acks \in AckOutcomes(build_chunk_segments(volumes[i].id, r[1],
                                                          r[1] + r[2])) :
                write_volume_bytes(i, c, r[1], [k \in 1..r[2] |-> b], mode, policy, acks)
    /\ UNCHANGED <<volume_mappings, io_plan, tokenVars>>

WriteDirect ==
    /\ CountOp
    /\ \E i \in 1..Len(volumes), c \in IoSdcIds, r \in PlanRanges,
          policy \in WriteAckPolicies :
          /\ validate_mapping_for_io(volumes[i].id, c, TRUE)
          /\ RangeHasChunks(volumes[i].id, r[1], r[2])
          /\ \E acks \in AckOutcomes(build_chunk_segments(volumes[i].id, r[1],
                                                          r[1] + r[2])) :
                write_direct(i, c, r[1], r[2], policy, acks)
    /\ UNCHANGED <<volume_mappings, io_plan, tokenVars>>

ExecuteIoPlan ==
    /\ CountOp
    /\ \E j \in 1..Len(chunks), policy \in WriteAckPolicies,
          k \in 0..Cardinality(SdsIds) : execute_io_plan(chunks[j].id, policy, k)
    /\ UNCHANGED <<volume_mappings, io_plan, tokenVars>>

\* The tokens an SDC can present: the payloads the MDM issued, unaltered or
\* with one field altered after signing.
Tamper(payload, how) ==
    CASE how = "range" -> [payload EXCEPT !.length_bytes = @ + 1]
      [] how = "expiry" -> [payload EXCEPT !.expires_at = @ + TOKEN_TTL_SECONDS]
      [] OTHER -> payload

PresentedTokens ==
    {Tamper(build_token_payload(io_tokens[k]), how) :
        k \in 1..Len(io_tokens), how \in Tampers}

mdmTables == <<storage_pools, sds_nodes, cluster_nodes, volumes, chunks,
               replicas, rebuild_jobs>>

IssueToken ==
    /\ CountOp
    /\ \E v \in 1..MaxVolumes, c \in IoSdcIds, op \in Operations, r \in TokenRanges :
          issue_token(v, c, op, r[1], r[2])
    /\ UNCHANGED <<mdmTables, ioVars>>

RevokeToken ==
    /\ CountOp
    /\ \E k \in 1..Len(io_tokens) : revoke_token(k)
    /\ UNCHANGED <<mdmTables, ioVars>>

CleanupExpiredTokens ==
    /\ CountOp
    /\ cleanup_expired_tokens
    /\ UNCHANGED <<mdmTables, ioVars>>

SdsWrite ==
    /\ CountOp
    /\ \E s \in TokenSds, tok \in PresentedTokens, v \in 1..Len(volumes),
          c \in RequestChunks, o \in RequestOffsets, d \in Payloads :
          handle_write(s, tok, volumes[v].id, c, o, d)
    /\ UNCHANGED <<mdmTables, ioVars>>

SendAcks ==
    /\ CountOp
    /\ \E s \in TokenSds : \E delivered \in SUBSET PendingAcks(s) :
          send_batch(s, delivered)
    /\ UNCHANGED <<mdmTables, ioVars>>

\* An ACK posted by one of the SDSs that executed the token's IO.
AcknowledgeTransaction ==
    /\ CountOp
    /\ \E k \in 1..MaxTokens, s \in TokenSds, success \in BOOLEAN :
          acknowledge_transaction(k, s, success)
    /\ UNCHANGED <<mdmTables, ioVars>>

TokenTick ==
    /\ CountOp
    /\ AdvanceTokenClock
    /\ UNCHANGED <<mdmTables, ioVars>>

\* The reads of a handler: it keeps the rows as it read them. A request the
\* reads refuse writes nothing.
Begin(h, request) ==
    /\ CountStep
    /\ handlers[h] = Idle
    /\ handlers' = [handlers EXCEPT ![h] = request]
    /\ UNCHANGED <<mdmVars, ioVars, tokenVars>>

\* map_volume up to its writes: the volume row, validate_volume_can_map, the
\* existing mapping and the replica paths.
BeginMap ==
    \E h \in HandlerIds, i \in 1..Len(volumes), c \in SdcIds, m \in AccessModes :
        /\ volumes[i].state \notin {"DEGRADED", "DELETING"}
        /\ ~AlreadyMapped(volumes[i].id, c)
        /\ HasReplicaPaths(volumes[i].id)
        /\ Begin(h, [pc |-> "map", vol |-> volumes[i], sdc_id |-> c, access_mode |-> m])

\* map_volume from its writes to its commit.
CommitMap ==
    \E h \in HandlerIds :
        /\ CountStep
        /\ handlers[h].pc = "map"
        /\ map_volume_commit(handlers[h].vol, handlers[h].sdc_id, handlers[h].access_mode)
        /\ handlers' = [handlers EXCEPT ![h] = Idle]
        /\ UNCHANGED <<io_plan, io_result, tokenVars>>

\* unmap_volume up to its writes: the volume row and the mapping row.
BeginUnmap ==
    \E h \in HandlerIds, i \in 1..Len(volumes), c \in SdcIds :
        /\ AlreadyMapped(volumes[i].id, c)
        /\ Begin(h, [pc |-> "unmap", vol |-> volumes[i],
                     mapping |-> FirstMapping(volumes[i].id, c)])

\* unmap_volume from its writes to its commit (the DELETE of a row that is
\* gone matches nothing).
CommitUnmap ==
    \E h \in HandlerIds :
        /\ CountStep
        /\ handlers[h].pc = "unmap"
        /\ unmap_volume_commit(handlers[h].vol, handlers[h].mapping)
        /\ handlers' = [handlers EXCEPT ![h] = Idle]
        /\ UNCHANGED <<io_plan, io_result, tokenVars>>

\* delete_volume up to its writes: the volume row and validate_volume_can_delete.
BeginDelete ==
    \E h \in HandlerIds, i \in 1..Len(volumes) :
        /\ volumes[i].mapping_count = 0
        /\ Begin(h, [pc |-> "delete", vol |-> volumes[i]])

\* delete_volume from its writes to its commit; the delete of the volume
\* cascades to the mapping rows it has at that time.
CommitDelete ==
    \E h \in HandlerIds :
        /\ CountFileStep
        /\ handlers[h].pc = "delete"
        /\ delete_volume_commit(handlers[h].vol)
        /\ volume_mappings' = {m \in volume_mappings : m.volume_id # handlers[h].vol.id}
        /\ handlers' = [handlers EXCEPT ![h] = Idle]
        /\ UNCHANGED <<io_plan, io_result, tokenVars>>

\* _handle_write of SDS s in handler thread h, up to the write of the chunk
\* file: token verification, the LocalReplica row (its generation as the
\* session holds it from then on) and seek/write. A refused request writes
\* nothing.
BeginSdsWrite ==
    \E h \in HandlerIds, s \in TokenSds, tok \in PresentedTokens, v \in 1..Len(volumes), c \in RequestChunks, o \in RequestOffsets, d \in Payloads :
        /\ CountStep
        /\ handlers[h] = Idle
        /\ verify_io_token(consumed_tokens[s], tok, volumes[v].id, "write", o, Len(d), now) = "ok"
        /\ HasLocalReplica(s, c, volumes[v].id)
        /\ local_replicas' = [local_replicas EXCEPT ![s].data = WriteAt(@, o, d)]
        /\ handlers' = [handlers EXCEPT ![h] =
              [pc |-> "sds_write", sds |-> s, generation |-> local_replicas[s].generation,
               row |-> [token_id |-> tok.token_id, volume_id |-> volumes[v].id,
                        chunk_id |-> c, operation |-> "write",
                        offset_bytes |-> o, length_bytes |-> Len(d)]]]
        /\ io_request' = [sds |-> s, token |-> tok, volume_id |-> volumes[v].id,
                          chunk_id |-> c, operation |-> "write", offset_bytes |-> o,
                          length_bytes |-> Len(d), data |-> d]
        /\ UNCHANGED <<mdmVars, ioVars, io_tokens, consumed_tokens, ack_queue, transaction_acks>>

\* _handle_write from "replica.generation += 1" on: the generation the
\* session holds plus one is committed, then the token is marked consumed and
\* the ack is queued.
FinishSdsWrite ==
    \E h \in HandlerIds :
        /\ CountStep
        /\ handlers[h].pc = "sds_write"
        /\ \E s \in {handlers[h].sds}, row \in {handlers[h].row} :
              /\ local_replicas' = [local_replicas EXCEPT ![s].generation = handlers[h].generation + 1]
              /\ IF row.token_id \in ConsumedIds(consumed_tokens[s])
                 THEN /\ last' = Result("sds_write", FALSE, "error")
                      /\ UNCHANGED <<consumed_tokens, ack_queue>>
                 ELSE /\ last' = Result("sds_write", TRUE, "ok")
                      /\ consumed_tokens' = [consumed_tokens EXCEPT ![s] = Append(@, row)]
                      /\ ack_queue' = [ack_queue EXCEPT ![s] = Append(@, PendingAck(row.token_id))]
        /\ handlers' = [handlers EXCEPT ![h] = Idle]
        /\ UNCHANGED <<mdmTables, now, ioVars, io_tokens, io_request, transaction_acks>>

\* component_heartbeat: the component's row is stamped and set ACTIVE.
component_heartbeat(c) ==
    component_registry' = [component_registry EXCEPT
        ![c] = [status |-> "ACTIVE", last_heartbeat_at |-> now]]

\* HealthMonitor._check_component_health at time t over the rows of
\* ComponentRegistry.
check_component_health(registry, t) ==
    [c \in DOMAIN registry |->
        IF registry[c].last_heartbeat_at < t - heartbeat_timeout_seconds
        THEN IF registry[c].status = "ACTIVE"
             THEN [registry[c] EXCEPT !.status = "INACTIVE"] ELSE registry[c]
        ELSE IF registry[c].status = "INACTIVE"
             THEN [registry[c] EXCEPT !.status = "ACTIVE"] ELSE registry[c]]

ComponentHeartbeat ==
    /\ \E c \in ComponentIds : component_heartbeat(c)
    /\ UNCHANGED <<mdmVars, op_count, op_limit, ioVars, tokenVars, handlers, node_last_heartbeat, fileVars, rebuild_failed_events>>

\* One pass of _monitor_loop.
CheckComponentHealth ==
    /\ component_registry' = check_component_health(component_registry, now)
    /\ UNCHANGED <<mdmVars, op_count, op_limit, ioVars, tokenVars, handlers, node_last_heartbeat, fileVars, rebuild_failed_events>>

AdvanceHealthClock ==
    /\ \E t \in HealthTimePoints : now < t /\ now' = t
    /\ UNCHANGED <<mdmTables, last, op_count, op_limit, ioVars, tokenVars, handlers, healthVars, fileVars, rebuild_failed_events>>

\* Volume, failure and rebuild operations of the MDM.
Next ==
    \/ CreateVolume
    \/ ExtendVolume
    \/ DeleteVolume
    \/ FailSds
    \/ RecoverSds
    \/ StartRebuild
    \/ RebuildTick
    \/ Tick

Spec == Init /\ [][Next]_vars

\* The configured cluster with the default rebuild rate limit.
InitDefaultRate ==
    /\ Init
    /\ \A p \in PoolIds : storage_pools[p].rate = DEFAULT_REBUILD_RATE

\* I/O planning over volumes, mappings, SDS failures and heartbeats.
NextPlan ==
    \/ CreateVolume
    \/ MapVolume
    \/ FailSds
    \/ RecoverSds
    \/ Heartbeat
    \/ PlanRead
    \/ PlanWrite

SpecPlan == InitDefaultRate /\ [][NextPlan]_vars

\* The write paths over mapped volumes.
NextIO ==
    \/ CreateVolume
    \/ MapVolume
    \/ Heartbeat
    \/ WriteVolumeBytes
    \/ WriteDirect
    \/ ExecuteIoPlan

\* The write paths carry the payloads to the replica files; their runs are
\* one operation shorter.
InitIO ==
    /\ Configured
    /\ \A p \in PoolIds : storage_pools[p].rate = DEFAULT_REBUILD_RATE
    /\ op_limit = MaxIoOps

SpecIO == InitIO /\ [][NextIO]_vars

\* Token issue, revocation, expiry and use at the SDS data ports.
NextToken ==
    \/ CreateVolume
    \/ IssueToken
    \/ RevokeToken
    \/ CleanupExpiredTokens
    \/ SdsWrite
    \/ SendAcks
    \/ TokenTick

SpecToken == InitDefaultRate /\ [][NextToken]_vars

\* Repeated failure and rebuild of a two_copies pool at the default rate.
InitRebuild ==
    /\ Configured
    /\ \A p \in PoolIds : /\ storage_pools[p].rate = DEFAULT_REBUILD_RATE
                          /\ storage_pools[p].policy = "two_copies"
    /\ op_limit = MaxRebuildOps

NextRebuild ==
    \/ CreateVolume
    \/ FailSds
    \/ RecoverSds
    \/ RebuildTick

SpecRebuild == InitRebuild /\ [][NextRebuild]_vars

\* Volumes and their mappings, with SDS failures.
NextMap ==
    \/ CreateVolume
    \/ MapVolume
    \/ UnmapVolume
    \/ DeleteVolume
    \/ FailSds

SpecMap == InitDefaultRate /\ [][NextMap]_vars

\* Map, unmap and delete requests served by handlers that run at the same
\* time: each reads the rows it decides on, then writes and commits.
NextConcurrent ==
    \/ CreateVolume
    \/ BeginMap
    \/ CommitMap
    \/ BeginUnmap
    \/ CommitUnmap
    \/ BeginDelete
    \/ CommitDelete

SpecConcurrent == InitDefaultRate /\ [][NextConcurrent]_vars

\* Write requests served by the per-connection threads of one SDS data port.
InitSds ==
    /\ Configured
    /\ \A p \in PoolIds : /\ storage_pools[p].rate = DEFAULT_REBUILD_RATE
                          /\ storage_pools[p].policy = "two_copies"
    /\ op_limit = MaxSdsOps

NextSdsConcurrent ==
    \/ CreateVolume
    \/ IssueToken
    \/ BeginSdsWrite
    \/ FinishSdsWrite

SpecSdsConcurrent == InitSds /\ [][NextSdsConcurrent]_vars

\* ACKs arriving at the MDM for tokens that are issued, revoked or expired.
NextTxAck ==
    \/ CreateVolume
    \/ IssueToken
    \/ RevokeToken
    \/ AcknowledgeTransaction
    \/ TokenTick

SpecTxAck == InitDefaultRate /\ [][NextTxAck]_vars

\* A batch of the ACK sender while the MDM is reachable: every post succeeds.
DeliverAcks ==
    /\ CountOp
    /\ \E s \in TokenSds : send_batch(s, PendingAcks(s))
    /\ UNCHANGED <<mdmTables, ioVars>>

\* Writes at the SDS data ports and the ACK sender's thread, which sends a
\* batch after every sleep; the MDM is reachable again and again.
NextAck ==
    \/ CreateVolume
    \/ IssueToken
    \/ SdsWrite
    \/ SendAcks

SpecAck == InitDefaultRate /\ [][NextAck]_vars /\ WF_vars(DeliverAcks)

\* Heartbeats of components and nodes, and the health monitor's thread, which
\* scans again after every sleep for as long as the MDM runs.
InitHealth ==
    /\ Configured
    /\ \A p \in PoolIds : /\ storage_pools[p].rate = DEFAULT_REBUILD_RATE
                          /\ storage_pools[p].policy = "two_copies"
    /\ op_limit = MaxHealthOps

NextHealth ==
    \/ ComponentHeartbeat
    \/ Heartbeat
    \/ CheckComponentHealth
    \/ AdvanceHealthClock

SpecHealth == InitHealth /\ [][NextHealth]_vars /\ WF_vars(CheckComponentHealth)

\* ------------------------------------------------------------------------
\* Properties of the metadata operations (checked under Spec)
\* ------------------------------------------------------------------------
PoolOfChunk(j) ==
    LET v == CHOOSE i \in 1..Len(volumes) : volumes[i].id = chunks[j].volume_id
    IN volumes[v].pool_id

ActiveJobs(jobs, p) ==
    {k \in 1..Len(jobs) : jobs[k].pool_id = p /\ jobs[k].state = "in_progress"}

JobsOfPool(jobs, p) == {k \in 1..Len(jobs) : jobs[k].pool_id = p}

\* C1: after every volume create, extend or delete, for thin and thick
\* volumes, used + reserved capacity of every pool is at most its total.
C1_UsedPlusReservedWithinTotal ==
    \A p \in PoolIds :
        storage_pools[p].used + storage_pools[p].reserved <= storage_pools[p].total

\* C4: no two replica rows of one chunk (available, unavailable or
\* rebuilding) are on the same SDS.
C4_ReplicasOnDistinctSds ==
    \A i, j \in 1..Len(replicas) :
        (i # j /\ replicas[i].chunk_id = replicas[j].chunk_id)
            => replicas[i].sds_id # replicas[j].sds_id

\* C5: a pool's health is FAILED exactly when some chunk of the pool has no
\* available replica.
C5_FailedIffChunkWithoutReplica ==
    \A p \in PoolIds :
        (storage_pools[p].health = "FAILED")
            <=> (\E j \in 1..Len(chunks) :
                    /\ PoolOfChunk(j) = p
                    /\ AvailableReplicas(replicas, chunks[j].id) = 0)

\* C6: between operations a chunk is marked degraded exactly when it has
\* fewer available replicas than its pool's policy requires (2 for
\* two_copies, 3 for erasure_coding).
C6_DegradedIffBelowPolicy ==
    \A j \in 1..Len(chunks) :
        chunks[j].is_degraded
            <=> (AvailableReplicas(replicas, chunks[j].id)
                    < ReplicaCount(storage_pools[PoolOfChunk(j)].policy))

C8_RejectedCreateLeavesNothing ==
    [][(last'.op = "create_volume" /\ ~last'.ok)
          => /\ volumes' = volumes
             /\ chunks' = chunks
             /\ replicas' = replicas
             /\ storage_pools' = storage_pools
             /\ sds_nodes' = sds_nodes]_vars

\* ------------------------------------------------------------------------
\* Properties of the tokens (checked under SpecToken)
\* ------------------------------------------------------------------------
\* verify_io_token let the last request through.
TokenAccepted == last.msg \in {"ok", "not found", "error"}

\* The token of the last request is usable: ISSUED at the MDM, not yet at
\* its expiry, correctly signed, and covering the request.
PresentedTokenUsable ==
    LET tok == io_request.token
        row == io_tokens[tok.token_id]
    IN /\ row.status = "ISSUED"
       /\ now < row.expires_at
       /\ verify_token(tok.token_id, tok.volume_id, tok.operation, tok.signature,
                       CLUSTER_SECRET, tok.offset_bytes, tok.length_bytes)
       /\ tok.volume_id = io_request.volume_id
       /\ tok.operation = io_request.operation
       /\ io_request.offset_bytes >= tok.offset_bytes
       /\ io_request.offset_bytes + io_request.length_bytes
             <= tok.offset_bytes + tok.length_bytes

\* C2: an SDS accepts the token of a request only if the token is ISSUED at
\* the MDM, now < expires_at, its signature verifies and it covers the
\* request's volume, operation and range; a token REVOKED, EXPIRED or
\* CONSUMED at the MDM is never accepted.
C2_AcceptedOnlyIfUsable ==
    (last.op = "sds_write" /\ TokenAccepted) =>
        /\ PresentedTokenUsable
        /\ io_tokens[io_request.token.token_id].status
                \notin {"REVOKED", "EXPIRED", "CONSUMED"}

\* C3: a write whose token the SDS has already consumed is refused and
\* changes neither the chunk's data and generation nor the consumed tokens;
\* it is refused as a replay when it repeats the request just served; and an
\* SDS never holds two ConsumedToken rows of one token.
C3_ReplayedWriteRejected ==
    /\ [](\A s \in SdsIds : \A a, b \in 1..Len(consumed_tokens[s]) :
            consumed_tokens[s][a].token_id = consumed_tokens[s][b].token_id
                => a = b)
    /\ [][(/\ last'.op = "sds_write"
           /\ io_request'.token.token_id
                 \in ConsumedIds(consumed_tokens[io_request'.sds]))
          => /\ ~last'.ok
             /\ local_replicas' = local_replicas
             /\ consumed_tokens' = consumed_tokens
             /\ io_tokens' = io_tokens
             /\ (last.op = "sds_write" /\ last.ok /\ io_request' = io_request)
                   => last'.msg = "replay"]_vars

\* C3 witness: the request of the one write an SDS has served was submitted
\* again and refused as a replay; the chunk holds the data of the first
\* write at generation 1.
C3_SecondWriteRefusedAsReplay ==
    /\ last.op = "sds_write"
    /\ last.msg = "replay"
    /\ local_replicas[io_request.sds].generation = 1
    /\ Len(consumed_tokens[io_request.sds]) = 1
    /\ consumed_tokens[io_request.sds][1].token_id = io_request.token.token_id
    /\ consumed_tokens[io_request.sds][1].volume_id = io_request.volume_id
    /\ consumed_tokens[io_request.sds][1].offset_bytes = io_request.offset_bytes
    /\ consumed_tokens[io_request.sds][1].length_bytes = io_request.length_bytes
    /\ SubSeq(local_replicas[io_request.sds].data, io_request.offset_bytes + 1,
              io_request.offset_bytes + io_request.length_bytes) = io_request.data

\* ------------------------------------------------------------------------
\* Properties of the write paths (checked under SpecIO)
\* ------------------------------------------------------------------------
\* C9: a write is reported successful only if every segment was
\* acknowledged by at least its required number of targets (all of them
\* under the policy all, floor(N/2)+1 under quorum).
C9_SuccessOnlyWithRequiredAcks ==
    io_result.status \in {"written", "ok"} =>
        \A k \in 1..Len(io_result.segments) :
            io_result.segments[k].acks
                >= required_acks_for_segment(io_result.segments[k].targets,
                                             io_result.write_policy)

\* ------------------------------------------------------------------------
\* Properties of the I/O plans (checked under SpecPlan)
\* ------------------------------------------------------------------------
\* C10: a plan generated while an SDS is failed (DOWN, not yet recovered)
\* has that SDS among the targets of none of its segments.
C10_PlanOmitsFailedSds ==
    last.op \in {"plan_volume_read", "plan_volume_write"} =>
        \A k \in 1..Len(io_plan.segments) :
            \A t \in 1..Len(io_plan.segments[k].targets) :
                sds_nodes[io_plan.segments[k].targets[t]].state # "DOWN"

\* ------------------------------------------------------------------------
\* Properties of rebuild jobs
\* ------------------------------------------------------------------------
\* C11: a rebuild job in state COMPLETED has bytes_rebuilt equal to its
\* total_bytes_to_rebuild.
C11_CompletedJobFullyRebuilt ==
    \A k \in 1..Len(rebuild_jobs) :
        rebuild_jobs[k].state = "completed" =>
            rebuild_jobs[k].bytes_rebuilt = rebuild_jobs[k].total_bytes_to_rebuild

\* C12: every rebuild job's progress_percent lies within [0, 100].
C12_ProgressWithinBounds ==
    \A k \in 1..Len(rebuild_jobs) :
        /\ 0 <= rebuild_jobs[k].progress_percent
        /\ rebuild_jobs[k].progress_percent <= 100

\* C13: no step lowers the bytes_rebuilt of a rebuild job, whatever the job's
\* state and whichever operation takes the step.
C13_BytesRebuiltNeverDecreases ==
    [][\A k \in 1..Len(rebuild_jobs) :
          rebuild_jobs'[k].bytes_rebuilt >= rebuild_jobs[k].bytes_rebuilt]_vars

\* C14 (the state reached on completion): when a progress tick moves a job to
\* COMPLETED, every chunk the job was started for has at least the policy's
\* replica count of available replicas and is not degraded.
C14_CompletedRebuildRestoresChunks ==
    [][\A k \in 1..Len(rebuild_jobs) :
          (rebuild_jobs[k].state = "in_progress" /\ rebuild_jobs'[k].state = "completed")
          => \A j \in 1..Len(chunks') :
                chunks'[j].id \in rebuild_jobs[k].degraded_chunks =>
                    /\ ~chunks'[j].is_degraded
                    /\ AvailableReplicas(replicas', chunks'[j].id)
                         >= ReplicaCount(storage_pools[rebuild_jobs[k].pool_id].policy)]_vars

\* ------------------------------------------------------------------------
\* Properties of volume mappings
\* ------------------------------------------------------------------------
PairMapped(volume_id, sdc_id) ==
    \E m \in volume_mappings : m.volume_id = volume_id /\ m.sdc_id = sdc_id

\* C15: a (volume, client) pair has at most one mapping; a map_volume call
\* either adds one mapping of a pair that had none, or fails and leaves the
\* mappings and the volumes (mapping_count and state) as they were.
C15_SecondMapRefused ==
    /\ [](\A m, n \in volume_mappings :
             (m.volume_id = n.volume_id /\ m.sdc_id = n.sdc_id) => m = n)
    /\ [][last'.op = "map_volume" =>
            IF last'.ok
            THEN \E m \in volume_mappings' :
                    /\ volume_mappings' = volume_mappings \cup {m}
                    /\ ~PairMapped(m.volume_id, m.sdc_id)
            ELSE volume_mappings' = volume_mappings /\ volumes' = volumes]_vars

C15_MapOfMappedPairRefused ==
    /\ last.op = "map_volume" /\ ~last.ok /\ last.msg = "already mapped"
    /\ \E i \in 1..Len(volumes) :
          /\ volumes[i].mapping_count = 1
          /\ volumes[i].state = "IN_USE"
          /\ Cardinality({m \in volume_mappings : m.volume_id = volumes[i].id}) = 1

\* C16: every mapping refers to an existing volume; a delete_volume call
\* either removes a volume whose mapping_count is 0 or is rejected and changes
\* nothing.
C16_MappedVolumeNotDeleted ==
    /\ [](\A m \in volume_mappings :
             \E i \in 1..Len(volumes) : volumes[i].id = m.volume_id)
    /\ [][last'.op = "delete_volume" =>
            IF last'.ok
            THEN \A i \in 1..Len(volumes) :
                    (\A k \in 1..Len(volumes') : volumes'[k].id # volumes[i].id)
                    => volumes[i].mapping_count = 0
            ELSE /\ volumes' = volumes
                 /\ volume_mappings' = volume_mappings
                 /\ chunks' = chunks
                 /\ replicas' = replicas
                 /\ storage_pools' = storage_pools
                 /\ sds_nodes' = sds_nodes]_vars

C16_DeleteOfMappedVolumeRejected ==
    /\ last.op = "delete_volume" /\ ~last.ok
    /\ \E i \in 1..Len(volumes) :
          /\ volumes[i].mapping_count > 0
          /\ PairMapped(volumes[i].id, 1)

\* The steps of the volume life cycle; DELETING is entered and left within
\* delete_volume, so a volume that goes does so from AVAILABLE or DELETING.
VolumeStateSteps ==
    {<<"CREATING", "AVAILABLE">>, <<"AVAILABLE", "IN_USE">>,
     <<"IN_USE", "AVAILABLE">>, <<"AVAILABLE", "DELETING">>}

\* C17: a volume's state changes only along CREATING -> AVAILABLE -> IN_USE ->
\* AVAILABLE -> DELETING -> gone, and a volume is IN_USE exactly while it has
\* at least one mapping.
C17_VolumeStateChain ==
    /\ [](\A i \in 1..Len(volumes) :
             volumes[i].state = "IN_USE"
                <=> \E m \in volume_mappings : m.volume_id = volumes[i].id)
    /\ [][\A i \in 1..Len(volumes) :
            LET after == {k \in 1..Len(volumes') : volumes'[k].id = volumes[i].id}
            IN IF after = {}
               THEN volumes[i].state \in {"AVAILABLE", "DELETING"}
               ELSE \A k \in after :
                       \/ volumes'[k].state = volumes[i].state
                       \/ <<volumes[i].state, volumes'[k].state>> \in VolumeStateSteps]_vars

\* C18: with map, unmap and delete requests of one volume served at the same
\* time, every volume's mapping_count equals the number of its mapping rows
\* and every mapping refers to an existing volume, as after any sequential
\* order of the requests.
C18_ConcurrentRequestsSerialized ==
    /\ \A i \in 1..Len(volumes) :
          volumes[i].mapping_count =
              Cardinality({m \in volume_mappings : m.volume_id = volumes[i].id})
    /\ \A m \in volume_mappings :
          \E i \in 1..Len(volumes) : volumes[i].id = m.volume_id

\* C19: whenever no write is in progress on an SDS, the generation of its
\* replica equals the number of writes it has completed successfully.
C19_GenerationCountsWrites ==
    \A s \in TokenSds :
        (\A h \in HandlerIds : handlers[h].pc = "sds_write" => handlers[h].sds # s)
            => local_replicas[s].generation = Len(consumed_tokens[s])

\* The heartbeat stamped at time hb is older than the timeout.
Stale(hb) == hb < now - heartbeat_timeout_seconds

\* An ACTIVE row of ComponentRegistry whose heartbeat is stale is moved out of
\* ACTIVE (unless a heartbeat arrives first).
StaleRegistryRowLeavesActive ==
    \A c \in ComponentIds :
        (component_registry[c].status = "ACTIVE" /\ Stale(component_registry[c].last_heartbeat_at))
            ~> (component_registry[c].status # "ACTIVE" \/ ~Stale(component_registry[c].last_heartbeat_at))

\* An INACTIVE row of ComponentRegistry whose heartbeat is fresh returns to
\* ACTIVE.
FreshRegistryRowReturnsToActive ==
    \A c \in ComponentIds :
        (component_registry[c].status = "INACTIVE" /\ ~Stale(component_registry[c].last_heartbeat_at))
            ~> (component_registry[c].status = "ACTIVE" \/ Stale(component_registry[c].last_heartbeat_at))

\* An ACTIVE ClusterNode whose heartbeat is stale is moved out of ACTIVE
\* (unless a heartbeat arrives first).
StaleClusterNodeLeavesActive ==
    \A s \in SdsIds :
        (cluster_nodes[s] = "ACTIVE" /\ Stale(node_last_heartbeat[s]))
            ~> (cluster_nodes[s] # "ACTIVE" \/ ~Stale(node_last_heartbeat[s]))

\* C20: every registered component, a row of ComponentRegistry or a
\* ClusterNode, that is ACTIVE with a heartbeat older than the timeout is
\* eventually moved out of ACTIVE by the health scan, and a registry row is
\* ACTIVE again once its heartbeat is fresh.
C20_StaleComponentLeavesActive ==
    /\ StaleRegistryRowLeavesActive
    /\ FreshRegistryRowReturnsToActive
    /\ StaleClusterNodeLeavesActive

\* Row k of the queue of SDS s exists and has the given ack_status.
AckHasStatus(s, k, status) ==
    k <= Len(ack_queue[s]) /\ ack_queue[s][k].ack_status = status

\* C21: an ACK whose delivery failed once is sent to the MDM in a later batch
\* (delivered, or failed a second time), as long as the run goes on.
C21_FailedAckRetried ==
    \A s \in TokenSds : \A k \in 1..MaxTokens :
        (AckHasStatus(s, k, "FAILED") /\ ack_queue[s][k].retry_count = 1)
            ~> \/ AckHasStatus(s, k, "SENT")
               \/ AckHasStatus(s, k, "FAILED") /\ ack_queue[s][k].retry_count > 1
               \/ op_count = op_limit

\* The step records a successful ACK for token_id.
SuccessAckRecorded(token_id) ==
    \E a \in Len(transaction_acks) + 1..Len(transaction_acks') :
        transaction_acks'[a].token_id = token_id /\ transaction_acks'[a].success

\* C22: a step that records ACKs sets a token that was not consumed and got a
\* successful ACK to CONSUMED with consumed_at = now, and changes no other
\* token: not one already consumed, not one whose ACKs all report failure.
C22_AckConsumesOnce ==
    [][Len(transaction_acks') > Len(transaction_acks) =>
        \A k \in 1..Len(io_tokens) :
            IF io_tokens[k].status # "CONSUMED" /\ SuccessAckRecorded(io_tokens[k].token_id)
            THEN /\ io_tokens'[k].status = "CONSUMED"
                 /\ io_tokens'[k].consumed_at = <<now>>
            ELSE io_tokens'[k] = io_tokens[k]]_vars

\* C23: a request passes the token check of the SDS only while now is before
\* the expires_at of the token it presents; at now = expires_at it is refused
\* as expired.
C23_ExpiryIsExclusive ==
    /\ (last.op = "sds_write" /\ TokenAccepted) => now < io_request.token.expires_at
    /\ (last.op = "sds_write" /\ now >= io_request.token.expires_at) => last.msg = "expired"

\* Number of replicas stored on SDS s.
ReplicasOn(s) == Cardinality({i \in 1..Len(replicas) : replicas[i].sds_id = s})

\* C24: the used capacity of every SDS equals one chunk's worth per replica
\* stored on it.
C24_SdsUsedMatchesReplicas ==
    \A s \in SdsIds : sds_nodes[s].used = ReplicasOn(s) * ChunkUnits

\* Some chunk of the pool is marked degraded, or some SDS of the pool's
\* protection domain is DOWN.
PoolImpaired(p) ==
    \/ \E j \in 1..Len(chunks) : PoolOfChunk(j) = p /\ chunks[j].is_degraded
    \/ \E s \in SdsIds : sds_nodes[s].pd = storage_pools[p].pd /\ sds_nodes[s].state = "DOWN"

\* C25: between operations a pool that is not FAILED has health DEGRADED
\* exactly when one of its chunks is degraded or an SDS of its protection
\* domain is DOWN, and health OK otherwise.
C25_DegradedIffImpaired ==
    \A p \in PoolIds :
        storage_pools[p].health # "FAILED" =>
            storage_pools[p].health = (IF PoolImpaired(p) THEN "DEGRADED" ELSE "OK")

\* ------------------------------------------------------------------------
\* Bytes written and read back through the MDM's volume I/O endpoints
\* ------------------------------------------------------------------------
\* read_volume_bytes when no SDS data port answers a segment's read (the
\* request the MDM sends carries no token, which _handle_read refuses):
\* network_only answers HTTP 503, the other mode reads the replica files.
read_volume_bytes(i, sdc_id, offset, length, io_mode) ==
    LET vol == volumes[i]
        replica_paths == list_replica_paths(vol.id)
    IN \* HTTP 403, 404, 500 and 503 return no bytes
       /\ validate_mapping_for_io(vol.id, sdc_id, FALSE)
       /\ replica_paths # <<>>
       /\ RangeHasChunks(vol.id, offset, length)
       /\ io_mode # "network_only"
       /\ read_data' = [volume_id |-> vol.id, offset |-> offset, length |-> length,
                        data |-> read_from_replica_paths(replica_files, replica_paths,
                                                         vol.id, offset, length)]
       /\ last' = Result("read_volume_bytes", TRUE, "read")
       /\ UNCHANGED <<storage_pools, sds_nodes, cluster_nodes, volumes, chunks,
                      replicas, rebuild_jobs, now>>

ReadVolumeBytes ==
    /\ Count
    /\ UNCHANGED <<healthVars, handlers, replica_files, written>>
    /\ \E i \in 1..Len(volumes), c \in IoSdcIds, r \in PlanRanges, mode \in IoModes :
          read_volume_bytes(i, c, r[1], r[2], mode)
    /\ UNCHANGED <<ioVars, tokenVars>>

\* write_volume_bytes when no SDS data port acknowledges a segment's write,
\* under the default write ack policy.
WriteVolumeData ==
    /\ CountFileOp
    /\ \E i \in 1..Len(volumes), c \in IoSdcIds, r \in PlanRanges, b \in DataBytes,
          mode \in IoModes, policy \in {"all"} :
          /\ validate_mapping_for_io(volumes[i].id, c, TRUE)
          /\ RangeHasChunks(volumes[i].id, r[1], r[2])
          /\ write_volume_bytes(i, c, r[1], [k \in 1..r[2] |-> b], mode, policy,
                [k \in 1..Len(build_chunk_segments(volumes[i].id, r[1], r[1] + r[2])) |-> 0])
    /\ UNCHANGED <<volume_mappings, io_plan, tokenVars>>

InitData ==
    /\ Configured
    /\ \A p \in PoolIds : storage_pools[p].rate = DEFAULT_REBUILD_RATE
    /\ op_limit = MaxDataOps

NextData ==
    \/ CreateVolume
    \/ ExtendVolume
    \/ MapVolume
    \/ WriteVolumeData
    \/ ReadVolumeBytes

SpecData == InitData /\ [][NextData]_vars

\* The last read was of the range of the last write the caller was told
\* succeeded, with no write and no delete of the volume since.
ReadOfWrittenRange ==
    /\ last.op = "read_volume_bytes"
    /\ written.volume_id = read_data.volume_id
    /\ written.offset = read_data.offset
    /\ Len(written.data) = read_data.length

\* C26: a read of the range of the last write to a mapped volume, with no
\* other write in between, returns exactly the bytes written, at every
\* offset, across a chunk boundary too.
C26_ReadReturnsWrittenBytes ==
    ReadOfWrittenRange => read_data.data = written.data

\* ------------------------------------------------------------------------
\* Rebuild starts that fail
\* ------------------------------------------------------------------------
\* POST /rebuild/start/{pool_id}: logic.start_rebuild raises when
\* RebuildEngine.start_rebuild returns False and the endpoint answers HTTP
\* 400; nothing is written and nothing is logged.
StartRebuildRequest ==
    /\ CountOp
    /\ \E p \in PoolIds :
         IF start_rebuild(p, [pools |-> storage_pools, chunks |-> chunks,
                              replicas |-> replicas, jobs |-> rebuild_jobs],
                          volumes, sds_nodes, now).ok
         THEN StartRebuildOp(p)
         ELSE /\ last' = Result("start_rebuild", FALSE,
                             start_rebuild(p, [pools |-> storage_pools, chunks |-> chunks,
                                               replicas |-> replicas, jobs |-> rebuild_jobs],
                                           volumes, sds_nodes, now).msg)
              /\ UNCHANGED <<storage_pools, sds_nodes, cluster_nodes, volumes, chunks,
                             replicas, rebuild_jobs, now>>
    /\ UNCHANGED <<ioVars, tokenVars>>

NextStart ==
    \/ CreateVolume
    \/ FailSds
    \/ RecoverSds
    \/ StartRebuildRequest
    \/ RebuildTick

SpecStart == InitDefaultRate /\ [][NextStart]_vars

\* The step was a start of a rebuild that failed: the explicit request was
\* refused, or the automatic start of fail_sds_node returned False.
StartFailed ==
    \/ last'.op = "start_rebuild" /\ ~last'.ok
    \/ last'.op = "fail_sds_node" /\ last'.msg \in {"in progress", "no degraded"}

RebuildingReplicas(rs) == {i \in 1..Len(rs) : rs[i].is_rebuilding}

\* C27: a start of a rebuild that fails logs a REBUILD_FAILED event and adds
\* neither a replica marked is_rebuilding nor an IN_PROGRESS job.
C27_FailedStartLoggedAndClean ==
    [][StartFailed =>
          /\ rebuild_failed_events' > rebuild_failed_events
          /\ Cardinality(RebuildingReplicas(replicas'))
                <= Cardinality(RebuildingReplicas(replicas))
          /\ \A p \in PoolIds : Cardinality(ActiveJobs(rebuild_jobs', p))
                                  <= Cardinality(ActiveJobs(rebuild_jobs, p))]_vars

\* The step is a progress tick of a rebuild.
ProgressTick == last'.op = "update_rebuild_progress"

\* A progress tick finds job k in progress, started more than the stall
\* timeout ago, and the job has no byte rebuilt once the tick has counted
\* the replicas it completes.
TickFindsNoProgress(k) ==
    /\ ProgressTick
    /\ rebuild_jobs[k].state = "in_progress"
    /\ now - rebuild_jobs[k].started_at > STALL_DETECTION_TIMEOUT_SEC
    /\ rebuild_jobs'[k].bytes_rebuilt = 0

\* C28: a progress tick that finds a job started more than 60 s ago with
\* no byte rebuilt moves the job and its pool's rebuild_state to STALLED
\* and changes no replica's availability; no job that has rebuilt a byte is
\* moved to STALLED.
C28_StalledOnlyWithoutProgress ==
    [][/\ \A k \in 1..Len(rebuild_jobs) :
            TickFindsNoProgress(k) =>
               /\ rebuild_jobs'[k].state = "stalled"
               /\ storage_pools'[rebuild_jobs[k].pool_id].rebuild_state = "stalled"
               /\ \A i \in 1..Len(replicas) :
                     replicas'[i].is_available = replicas[i].is_available
       /\ \A k \in 1..Len(rebuild_jobs) :
            (rebuild_jobs[k].bytes_rebuilt > 0 /\ rebuild_jobs[k].state # "stalled")
               => rebuild_jobs'[k].state # "stalled"]_vars

\* ------------------------------------------------------------------------
\* Token round trip: sign_token at issue, verify_token at the verifier
\* ------------------------------------------------------------------------
OTHER_SECRET == "other-secret"

TokenFields == {"token_id", "volume_id", "operation", "offset_bytes",
                "length_bytes", "signature", "secret"}

\* Values a changed field of a presented token may take; the numbers include
\* ones whose text extends, or is a part of, the text of the issued ones.
ChangedValues(payload, field) ==
    CASE field \in {"token_id", "volume_id"} -> {1, 2, 11, 12}
      [] field = "operation" -> Operations
      [] field \in {"offset_bytes", "length_bytes"} -> {0, 1, 2, 10, 11, 12}
      [] field = "signature" ->
            {io_tokens[k].signature : k \in 1..Len(io_tokens)}
            \cup {sign_token(payload.token_id, payload.volume_id, payload.operation,
                             OTHER_SECRET, payload.offset_bytes, payload.length_bytes)}
      [] OTHER -> {OTHER_SECRET}

\* The payload of an issued token together with the verifier's secret, as
\* issued ("none") or with one field changed to another value.
Presented(payload, field, value) ==
    LET issued == [token_id |-> payload.token_id, volume_id |-> payload.volume_id,
                   operation |-> payload.operation,
                   offset_bytes |-> payload.offset_bytes,
                   length_bytes |-> payload.length_bytes,
                   signature |-> payload.signature, secret |-> CLUSTER_SECRET]
    IN IF field = "none" THEN issued ELSE [issued EXCEPT ![field] = value]

\* verify_token applied to a presented token.
VerifyToken ==
    /\ CountOp
    /\ \E k \in 1..Len(io_tokens), field \in TokenFields \cup {"none"} :
         \E value \in IF field = "none" THEN {0}
                      ELSE {x \in ChangedValues(build_token_payload(io_tokens[k]), field) :
                               x # Presented(build_token_payload(io_tokens[k]), "none", 0)[field]} :
            \E p \in {Presented(build_token_payload(io_tokens[k]), field, value)} :
               /\ io_request' = [NoRequest EXCEPT !.token = p]
               /\ last' = Result("verify_token",
                                 verify_token(p.token_id, p.volume_id, p.operation,
                                              p.signature, p.secret, p.offset_bytes,
                                              p.length_bytes),
                                 field)
    /\ UNCHANGED <<mdmTables, now, ioVars, io_tokens, consumed_tokens, local_replicas,
                   ack_queue, transaction_acks>>

NextVerify ==
    \/ CreateVolume
    \/ IssueToken
    \/ VerifyToken

SpecVerify == InitDefaultRate /\ [][NextVerify]_vars

\* C29: a token verifies as valid against the parameters and the secret it
\* was issued with, and as invalid when one of token id, volume, operation,
\* offset, length, signature or secret is changed.
C29_TokenRoundTrip ==
    last.op = "verify_token" => (last.ok <=> last.msg = "none")

\* C29 witness: an issued token presented with its length changed, the
\* signature being the issued one, was verified as invalid.
C29_ChangedLengthRejected ==
    /\ last.op = "verify_token"
    /\ ~last.ok
    /\ last.msg = "length_bytes"
    /\ \E k \in 1..Len(io_tokens) :
          /\ io_request.token.signature = io_tokens[k].signature
          /\ io_request.token.token_id = io_tokens[k].token_id
          /\ io_request.token.length_bytes # io_tokens[k].length_bytes

\* ------------------------------------------------------------------------
\* The health scan, row by row, next to the heartbeat endpoint
\* ------------------------------------------------------------------------
\* The monitor thread (the first of the handlers here) and the order in
\* which its SELECT returns the rows.
MonitorThread == CHOOSE h \in HandlerIds : \A g \in HandlerIds : h <= g
ScanOrder == <<"sds-1", "sdc-1">>

\* _check_component_health up to the loop: now is taken and the rows are
\* loaded into the monitor's session. No lock is taken.
BeginScan ==
    /\ handlers[MonitorThread] = Idle
    /\ handlers' = [handlers EXCEPT ![MonitorThread] =
          [pc |-> "scan", rows |-> component_registry, todo |-> ScanOrder, t |-> now]]
    /\ UNCHANGED <<mdmVars, op_count, op_limit, ioVars, tokenVars, healthVars, fileVars,
                   rebuild_failed_events>>

\* One pass of the loop: the row is judged as the session holds it; a changed
\* status is written (the UPDATE sets the status column only) and committed,
\* and the commit expires the session's rows, which are loaded again when
\* the loop goes on. After the last row the scan is over.
ScanRow ==
    /\ handlers[MonitorThread].pc = "scan"
    /\ \E scan \in {handlers[MonitorThread]} :
         \E c \in {Head(scan.todo)} :
            \E status \in {check_component_health([x \in {c} |-> scan.rows[c]], scan.t)[c].status} :
               /\ component_registry' =
                     IF status # scan.rows[c].status
                     THEN [component_registry EXCEPT ![c].status = status]
                     ELSE component_registry
               /\ handlers' = [handlers EXCEPT ![MonitorThread] =
                     IF Len(scan.todo) = 1 THEN Idle
                     ELSE [scan EXCEPT !.todo = Tail(scan.todo),
                                       !.rows = IF status # scan.rows[c].status
                                                THEN component_registry'
                                                ELSE scan.rows]]
    /\ UNCHANGED <<mdmVars, op_count, op_limit, ioVars, tokenVars, node_last_heartbeat,
                   fileVars, rebuild_failed_events>>

NextScan ==
    \/ ComponentHeartbeat
    \/ BeginScan
    \/ ScanRow
    \/ AdvanceHealthClock

SpecScan == InitHealth /\ [][NextScan]_vars

\* C30: a scan and a heartbeat of one component act as if one ran after
\* the other: whenever no scan is under way, a component whose
\* last_heartbeat is within the timeout has status ACTIVE.
C30_ScanSerializedWithHeartbeat ==
    handlers[MonitorThread] = Idle =>
        \A c \in ComponentIds :
            ~Stale(component_registry[c].last_heartbeat_at)
                => component_registry[c].status = "ACTIVE"

\* ------------------------------------------------------------------------
\* Two connections presenting one token to an SDS
\* ------------------------------------------------------------------------
\* The write requests that have written the chunk's file on SDS s under
\* token token_id and have not yet recorded the token.
WritesInProgress(s, token_id) ==
    {h \in HandlerIds : /\ handlers[h].pc = "sds_write"
                        /\ handlers[h].sds = s
                        /\ handlers[h].row.token_id = token_id}

\* C31: of the write requests that carry one token and are served by an SDS
\* at the same time, at most one writes the chunk's file: a token is never
\* held by two requests that have both written, nor by a request that has
\* written after the token was recorded as consumed.
C31_OneWritePerToken ==
    \A s \in TokenSds :
        \A k \in 1..Len(io_tokens) :
            LET token_id == io_tokens[k].token_id
            IN Cardinality(WritesInProgress(s, token_id))
                 + (IF token_id \in ConsumedIds(consumed_tokens[s]) THEN 1 ELSE 0) <= 1

\* ------------------------------------------------------------------------
\* Volume I/O over the data ports while SDS nodes fail and recover
\* ------------------------------------------------------------------------
\* Operations per run of a write, a failure, a write, a recovery and a read.
MaxStaleOps == 7

\* The data port of an SDS answers while the SDS is up; a failed SDS answers
\* nothing until it has recovered.
DataPortAnswers(s) == sds_nodes[s].state = "UP"

\* The targets of a segment that answer ok to a write, in the plan's order.
AnsweringTargets(segment) == SelectSeq(segment.targets, DataPortAnswers)

\* The targets that answer ok to a read: the data ports that answer and
\* have a file for the chunk.
ReadableTargets(segment) ==
    SelectSeq(segment.targets,
              LAMBDA s : DataPortAnswers(s) /\ local_replicas[s].data # <<>>)

\* write_volume_bytes for a range within the chunk whose copies are
\* followed, with data ports that apply the writes they answer ok to: the
\* segment is sent to every target; with fewer acks than the policy
\* requires, network_only ends in HTTP 503 and the other mode writes the
\* replica files and reports the write as done.
write_volume_bytes_network(i, sdc_id, offset, data, io_mode, write_policy) ==
    LET vol == volumes[i]
        replica_paths == list_replica_paths(vol.id)
    IN \* HTTP 403 and 404, and a range without chunk rows, end the request
       /\ validate_mapping_for_io(vol.id, sdc_id, TRUE)
       /\ replica_paths # <<>>
       /\ RangeHasChunks(vol.id, offset, Len(data))
       /\ \E segments \in {build_chunk_segments(vol.id, offset, offset + Len(data))} :
            /\ \A k \in 1..Len(segments) : segments[k].chunk_id \in RequestChunks
            /\ \E segment \in {segments[1]} :
                LET successes == Len(AnsweringTargets(segment))
                    reached == Range(AnsweringTargets(segment))
                    enough == /\ Len(segment.targets) # 0
                              /\ successes >= required_acks_for_segment(
                                                 Len(segment.targets), write_policy)
                    failed == ~enough /\ io_mode = "network_only"
                IN /\ local_replicas' = [s \in SdsIds |->
                         IF s \in reached
                         THEN [generation |-> local_replicas[s].generation + 1,
                               data |-> WriteAt(local_replicas[s].data, offset, data)]
                         ELSE local_replicas[s]]
                   /\ replica_files' =
                         IF ~enough /\ ~failed
                         THEN write_to_replica_paths(replica_files, replica_paths,
                                                     vol.id, offset, data)
                         ELSE replica_files
                   /\ chunks' = IF ~enough THEN chunks
                                ELSE Tabulate([j \in 1..Len(chunks) |->
                                        IF chunks[j].id = segment.chunk_id
                                        THEN [chunks[j] EXCEPT !.generation = @ + 1]
                                        ELSE chunks[j]])
                   /\ io_result' =
                        [op |-> "write_volume_bytes",
                         status |-> IF failed THEN "error" ELSE "written",
                         io_path |-> IF enough THEN "network" ELSE "local",
                         io_mode |-> io_mode, write_policy |-> write_policy,
                         segments |-> SegmentAcks(segments, <<successes>>, 1,
                                                  write_policy)]
                   /\ last' = Result("write_volume_bytes", ~failed,
                                     IF failed THEN "acks" ELSE "written")
                   \* a refused write that reached a copy leaves no write
                   \* the caller was told succeeded
                   /\ written' =
                        IF ~failed
                        THEN [volume_id |-> vol.id, offset |-> offset, data |-> data]
                        ELSE IF reached = {} THEN written
                        ELSE NoWrite
       /\ UNCHANGED <<storage_pools, sds_nodes, cluster_nodes, volumes, replicas,
                      rebuild_jobs, now>>

\* read_volume_bytes for a range within the chunk whose copies are followed,
\* with data ports that answer: the targets are asked in the plan's order up
\* to the first ok answer; an answer of another length than requested ends
\* in HTTP 503 under network_only and in a read of the replica files
\* otherwise.
read_volume_bytes_network(i, sdc_id, offset, length, io_mode) ==
    LET vol == volumes[i]
        replica_paths == list_replica_paths(vol.id)
        answer(s) == SubSeq(local_replicas[s].data, offset + 1,
                            IF offset + length <= Len(local_replicas[s].data)
                            THEN offset + length ELSE Len(local_replicas[s].data))
    IN \* HTTP 403, 404, 500 and 503 return no bytes
       /\ validate_mapping_for_io(vol.id, sdc_id, FALSE)
       /\ replica_paths # <<>>
       /\ RangeHasChunks(vol.id, offset, length)
       /\ \E segments \in {build_chunk_segments(vol.id, offset, offset + length)} :
            /\ \A k \in 1..Len(segments) : segments[k].chunk_id \in RequestChunks
            /\ \E readable \in {ReadableTargets(segments[1])} :
                LET served == readable # <<>> /\ Len(answer(readable[1])) = length
                IN /\ served \/ io_mode # "network_only"
                   /\ read_data' =
                        [volume_id |-> vol.id, offset |-> offset, length |-> length,
                         data |-> IF served THEN answer(readable[1])
                                  ELSE read_from_replica_paths(replica_files,
                                           replica_paths, vol.id, offset, length)]
                   /\ last' = Result("read_volume_bytes", TRUE,
                                     IF served THEN "network" ELSE "local")
       /\ UNCHANGED <<storage_pools, sds_nodes, cluster_nodes, volumes, chunks,
                      replicas, rebuild_jobs, now>>

\* Writes and reads under the default I/O mode and write ack policy.
WriteVolumeNetwork ==
    /\ Count
    /\ UNCHANGED <<healthVars, handlers, read_data>>
    /\ \E i \in 1..Len(volumes), c \in IoSdcIds, o \in RequestOffsets, d \in Payloads,
          mode \in {"network_prefer_local"}, policy \in {"all"} :
          write_volume_bytes_network(i, c, o, d, mode, policy)
    /\ UNCHANGED <<volume_mappings, io_plan, io_tokens, consumed_tokens, ack_queue,
                   io_request, transaction_acks>>

ReadVolumeNetwork ==
    /\ Count
    /\ UNCHANGED <<healthVars, handlers, replica_files, written>>
    /\ \E i \in 1..Len(volumes), c \in IoSdcIds, r \in TokenRanges,
          mode \in {"network_prefer_local"} :
          read_volume_bytes_network(i, c, r[1], r[2], mode)
    /\ UNCHANGED <<ioVars, tokenVars>>

\* One volume of half a chunk, mapped for writing to the SDC that does the
\* I/O.
CreateIoVolume ==
    /\ CountFileOp
    /\ volumes = <<>>
    /\ \E p \in PoolIds, n \in {1}, s \in {HalfChunk}, pr \in {"thin"} :
          create_volume(p, n, s, pr)
    /\ UNCHANGED <<ioVars, tokenVars>>

MapIoVolume ==
    /\ CountOp
    /\ \E i \in 1..Len(volumes), c \in IoSdcIds, m \in {"readWrite"} : map_volume(i, c, m)
    /\ UNCHANGED <<io_plan, io_result, tokenVars>>

InitStale ==
    /\ Configured
    /\ \A p \in PoolIds : /\ storage_pools[p].rate = DEFAULT_REBUILD_RATE
                          /\ storage_pools[p].policy = "two_copies"
    /\ op_limit = MaxStaleOps

NextStale ==
    \/ CreateIoVolume
    \/ MapIoVolume
    \/ FailSds
    \/ RecoverSds
    \/ WriteVolumeNetwork
    \/ ReadVolumeNetwork

SpecStale == InitStale /\ [][NextStale]_vars

\* The last read was answered by a data port and was of the range of the
\* last write the caller was told succeeded.
NetworkReadOfWrittenRange ==
    /\ last = Result("read_volume_bytes", TRUE, "network")
    /\ written.volume_id = read_data.volume_id
    /\ written.offset = read_data.offset
    /\ Len(written.data) = read_data.length

TargetReplicas(segment, sds_id) ==
    {i \in 1..Len(replicas) : /\ replicas[i].chunk_id = segment.chunk_id
                              /\ replicas[i].sds_id = sds_id}

\* C33: every target of every segment of a plan just generated is a replica
\* that is available and is not being rebuilt.
C33_PlanTargetsUsableReplicas ==
    last.op \in {"plan_volume_read", "plan_volume_write"} =>
        \A k \in 1..Len(io_plan.segments) :
            \A t \in 1..Len(io_plan.segments[k].targets) :
                \A i \in TargetReplicas(io_plan.segments[k], io_plan.segments[k].targets[t]) :
                    replicas[i].is_available /\ ~replicas[i].is_rebuilding

\* ------------------------------------------------------------------------
\* The segments of one I/O presented under one token
\* ------------------------------------------------------------------------
\* A write token for a range of a planning request: within the first chunk,
\* or across the boundary of the first two chunks.
IssueRangeToken ==
    /\ CountOp
    /\ \E v \in 1..MaxVolumes, c \in IoSdcIds, r \in PlanRanges :
          issue_token(v, c, "write", r[1], r[2])
    /\ UNCHANGED <<mdmTables, ioVars>>

\* The frame of segment k of the I/O a token was issued for, sent to one of
\* the segment's targets: the token as issued, the segment's chunk, offset
\* and length as the plan gives them.
SdsWriteSegment ==
    /\ CountOp
    /\ \E n \in 1..Len(io_tokens) :
         \E tok \in {build_token_payload(io_tokens[n])} :
            /\ RangeHasChunks(tok.volume_id, tok.offset_bytes, tok.length_bytes)
            /\ \E segments \in {build_chunk_segments(tok.volume_id, tok.offset_bytes,
                                   tok.offset_bytes + tok.length_bytes)} :
                 \E k \in 1..Len(segments), s \in TokenSds :
                    /\ \E t \in 1..Len(segments[k].targets) : segments[k].targets[t] = s
                    /\ handle_write(s, tok, tok.volume_id, segments[k].chunk_id,
                                    segments[k].segment_offset_bytes,
                                    [x \in 1..segments[k].segment_length_bytes |-> 1])
    /\ UNCHANGED <<mdmTables, ioVars>>

NextSegments ==
    \/ CreateVolume
    \/ IssueRangeToken
    \/ SdsWriteSegment

SpecSegments == InitDefaultRate /\ [][NextSegments]_vars

\* The SDS of the last request has recorded an I/O of the request's token on
\* the request's chunk.
SegmentRecorded ==
    \E k \in 1..Len(consumed_tokens[io_request.sds]) :
        /\ consumed_tokens[io_request.sds][k].token_id = io_request.token.token_id
        /\ consumed_tokens[io_request.sds][k].chunk_id = io_request.chunk_id

\* C34: a token authorizes every segment of the I/O it was issued for: a
\* segment's frame carrying the token is refused by a target of the segment
\* only if that SDS has already executed this segment under the token.
C34_TokenAuthorizesEverySegment ==
    (last.op = "sds_write" /\ ~SegmentRecorded) => last.ok

\* ------------------------------------------------------------------------
\* Plans and tokens against the mappings of the requesting SDC
\* ------------------------------------------------------------------------
NextAuthorize ==
    \/ CreateVolume
    \/ MapVolume
    \/ UnmapVolume
    \/ PlanRead
    \/ PlanWrite
    \/ IssueToken

SpecAuthorize == InitDefaultRate /\ [][NextAuthorize]_vars

\* The SDC holds a mapping to the volume that allows the operation.
MappingAllows(volume_id, sdc_id, operation) ==
    \E m \in volume_mappings :
        /\ m.volume_id = volume_id
        /\ m.sdc_id = sdc_id
        /\ operation = "write" => m.access_mode # "readOnly"

\* A plan has just been returned to an SDC without a mapping that allows it.
PlanWithoutMapping ==
    /\ last.op \in {"plan_volume_read", "plan_volume_write"}
    /\ \A c \in IoSdcIds : ~MappingAllows(io_plan.volume_id, c, io_plan.operation)

\* A token has just been issued to an SDC without a mapping that allows it.
TokenWithoutMapping ==
    /\ last.op = "issue_token"
    /\ \E token \in {io_tokens[Len(io_tokens)]} :
          ~MappingAllows(token.volume_id, token.sdc_id, token.operation)

\* C35: a plan or a token is handed to an SDC only while the SDC holds a
\* mapping to the volume, and one for a write only while that mapping is not
\* read-only.
C35_PlanAndTokenRequireMapping ==
    ~PlanWithoutMapping /\ ~TokenWithoutMapping

\* ------------------------------------------------------------------------
\* The status of a token under ACKs, revocation and expiry cleanup
\* ------------------------------------------------------------------------
NextStatus ==
    \/ CreateVolume
    \/ IssueToken
    \/ RevokeToken
    \/ CleanupExpiredTokens
    \/ AcknowledgeTransaction
    \/ TokenTick

SpecStatus == InitDefaultRate /\ [][NextStatus]_vars

FinalStatuses == {"CONSUMED", "EXPIRED", "REVOKED"}

\* C36: the status of a token changes only from ISSUED, and only to
\* CONSUMED, EXPIRED or REVOKED: a token that has left ISSUED keeps its
\* status whatever ACK, revocation or cleanup follows.
C36_TokenStatusFinal ==
    [][\A k \in 1..Len(io_tokens) :
          io_tokens'[k].status # io_tokens[k].status
             => /\ io_tokens[k].status = "ISSUED"
                /\ io_tokens'[k].status \in FinalStatuses]_vars

\* ------------------------------------------------------------------------
\* Availability of the replicas of a failed SDS
\* ------------------------------------------------------------------------
\* C37: whatever SDS failures, recoveries, rebuild starts and progress
\* ticks have happened, no replica on an SDS in state DOWN is marked
\* available.
C37_NoAvailableReplicaOnDownSds ==
    \A i \in 1..Len(replicas) :
        sds_nodes[replicas[i].sds_id].state = "DOWN" => ~replicas[i].is_available

\* ------------------------------------------------------------------------
\* What a progress tick leaves alone
\* ------------------------------------------------------------------------
\* The states of RebuildState in which a job is over.
TerminalJobStates == {"completed", "failed", "stalled"}

\* C38: a progress tick of a pool changes, of the pool's rebuild jobs, the
\* current one only: a job that had reached a terminal state before the
\* tick is the same after it.
C38_TickLeavesTerminalJobs ==
    [][ProgressTick =>
          \A k \in 1..Len(rebuild_jobs) :
              rebuild_jobs[k].state \in TerminalJobStates
                  => rebuild_jobs'[k] = rebuild_jobs[k]]_vars

\* ------------------------------------------------------------------------
\* Volume extension and the chunk rows of the volume
\* ------------------------------------------------------------------------
\* Positions in cs of the chunk rows of the volume.
ChunkRowsOfVolume(cs, volume_id) ==
    {k \in 1..Len(cs) : cs[k].volume_id = volume_id}

\* The chunk rows of the volume number ceil(size / chunk size) and carry the
\* indexes 0, 1, ... once each.
ChunksCoverVolume(cs, volume_id, size) ==
    /\ Cardinality(ChunkRowsOfVolume(cs, volume_id)) = ChunkCount(size)
    /\ {cs[k].idx : k \in ChunkRowsOfVolume(cs, volume_id)}
           = 0..(ChunkCount(size) - 1)

\* C39: an extend of a volume allocates chunks for the added range only:
\* afterwards the volume has exactly ceil(new size / chunk size) chunks,
\* indexed from zero without a gap and with no index twice, and the chunks
\* and replicas that existed before the extend are unchanged.
C39_ExtendAllocatesAddedRange ==
    [][ExtendVolume =>
          \A i \in 1..Len(volumes) :
              volumes'[i].size # volumes[i].size =>
                  /\ ChunksCoverVolume(chunks', volumes[i].id, volumes'[i].size)
                  /\ SubSeq(chunks', 1, Len(chunks)) = chunks
                  /\ SubSeq(replicas', 1, Len(replicas)) = replicas]_vars

\* ------------------------------------------------------------------------
\* Placement of new chunks over the fault sets
\* ------------------------------------------------------------------------
MaxPlaceOps == 3

\* fault_sets.id of an SDS node; 0 is an SDS node without a fault set, as
\* the SDS registration leaves it.
FaultSetIds == 0..3

\* Volumes are created and extended while SDS nodes fail and recover, over
\* every assignment of the SDS nodes to fault sets.
InitPlacement ==
    /\ \E fault_sets \in [SdsIds -> FaultSetIds] : ConfiguredWith(fault_sets)
    /\ \A p \in PoolIds : storage_pools[p].rate = DEFAULT_REBUILD_RATE
    /\ op_limit = MaxPlaceOps

NextPlacement ==
    \/ CreateVolume
    \/ ExtendVolume
    \/ FailSds
    \/ RecoverSds

SpecPlacement == InitPlacement /\ [][NextPlacement]_vars

\* The fault sets that contain an SDS node of the protection domain in
\* state UP.
EligibleFaultSets(pd) ==
    {sds_nodes[s].fault_set :
        s \in {t \in SdsIds : sds_nodes[t].pd = pd /\ sds_nodes[t].state = "UP"}}
      \ {0}

\* Fault sets of the SDS nodes that hold the replica rows, among the rows
\* rs from position first on, of the chunk (0 among them: a node of none).
FaultSetsOfNewReplicas(rs, first, chunk_id) ==
    {sds_nodes[rs[r].sds_id].fault_set :
        r \in {q \in first..Len(rs) : rs[q].chunk_id = chunk_id}}

\* A chunk row is added by the step.
ChunkPlaced == Len(chunks') > Len(chunks)

\* C40: when at least N fault sets contain an eligible SDS node in state UP
\* (N the replica count of the pool's policy), the N replicas of every
\* newly placed chunk are on SDS nodes of N distinct fault sets.
C40_NewChunkSpansFaultSets ==
    [][\A k \in (Len(chunks) + 1)..Len(chunks') :
          \A p \in PoolIds :
              LET n == ReplicaCount(storage_pools[p].policy)
                  fs == FaultSetsOfNewReplicas(replicas', Len(replicas) + 1,
                                               chunks'[k].id)
              IN (/\ \E i \in 1..Len(volumes') :
                        /\ volumes'[i].id = chunks'[k].volume_id
                        /\ volumes'[i].pool_id = p
                  /\ Cardinality(EligibleFaultSets(storage_pools[p].pd)) >= n)
                     => /\ 0 \notin fs
                        /\ Cardinality(fs) = n]_vars

====
